---- MODULE Spec2Model ----
(***************************************************************************)
(* A model of the curiosity query pipeline: the in-memory storage          *)
(* (js/db.js), the data manager (importFiles, deleteSource,                *)
(* detectEntityTypes), the concept mapper (mapConceptsToFields), the       *)
(* query engine (predicates, single- and multi-source execution,           *)
(* aggregation, validation), the prompt parser (parsePrompt) and the Run   *)
(* click handler of the application.                                       *)
(*                                                                         *)
(* JavaScript strings are modelled as sequences of one-character strings,  *)
(* so that toLowerCase, includes, split and the character-class regular    *)
(* expressions of the source are computed and not assumed.                 *)
(***************************************************************************)
EXTENDS Integers, Sequences, FiniteSets, TLC

VARIABLES
  sources,              \* storage.sources : Map sourceId -> meta, in insertion order
  schemas,              \* storage.schemas : Map sourceId -> schema
  rows,                 \* storage.rows    : Map sourceId -> Row[]
  clock,                \* Date.now()
  sourcesMeta,          \* app.js: the cached result of listSources()
  result,               \* the value returned by the last executeQueryPlan call
  run,                  \* the Run click handler: its position and locals
  translators,          \* window.Translators: type -> (key -> code)
  sessionLearnings,     \* nlpEngine.js: Map fragment -> resolution
  sessionQueryHistory,  \* nlpEngine.js: list of {fragment, resolution}
  parsed,               \* the last parsePrompt call: its text and plan
  registeredLibraries,  \* window.FunctionLibrary: the functions registered
  cachedKeywordEntries, \* functionRegistry.js: the keyword index, or null
  call                  \* the last call of a library function and its value

vars == <<sources, schemas, rows, clock, sourcesMeta, result, run, translators,
          sessionLearnings, sessionQueryHistory, parsed,
          registeredLibraries, cachedKeywordEntries, call>>

\* window.FunctionLibrary, the keyword index of the function registry, and the
\* last call of a library function with its arguments and the value returned
libraryVars == <<registeredLibraries, cachedKeywordEntries, call>>

\* the variables of the page outside the function and statistics libraries
pageVars == <<sources, schemas, rows, clock, sourcesMeta, result, run, translators,
              sessionLearnings, sessionQueryHistory, parsed>>

storeVars == <<sources, schemas, rows>>
nlpVars == <<sessionLearnings, sessionQueryHistory, parsed>>

-----------------------------------------------------------------------------
(* Strings                                                                 *)

UpperChars == <<"A","B","C","D","E","F","G","H","I","J","K","L","M",
                "N","O","P","Q","R","S","T","U","V","W","X","Y","Z">>
LowerChars == <<"a","b","c","d","e","f","g","h","i","j","k","l","m",
                "n","o","p","q","r","s","t","u","v","w","x","y","z">>
DigitChars == <<"0","1","2","3","4","5","6","7","8","9">>

IsUpper(c) == \E i \in 1..26 : UpperChars[i] = c
IsLowerCh(c) == \E i \in 1..26 : LowerChars[i] = c
IsDigit(c) == \E i \in 1..10 : DigitChars[i] = c
IsAlnum(c) == IsUpper(c) \/ IsLowerCh(c) \/ IsDigit(c)
DigitVal(c) == (CHOOSE i \in 1..10 : DigitChars[i] = c) - 1

ToLowerChar(c) == IF IsUpper(c) THEN LowerChars[CHOOSE i \in 1..26 : UpperChars[i] = c] ELSE c

\* String.prototype.toLowerCase
toLowerCase(s) == [i \in 1..Len(s) |-> ToLowerChar(s[i])]

\* String.prototype.includes
includes(s, t) == \E i \in 0..(Len(s) - Len(t)) : SubSeq(s, i + 1, i + Len(t)) = t

startsWith(s, t) == Len(s) >= Len(t) /\ SubSeq(s, 1, Len(t)) = t
endsWith(s, t) == Len(s) >= Len(t) /\ SubSeq(s, Len(s) - Len(t) + 1, Len(s)) = t

\* s.replace(/[...]/g, r) for a character class given as a predicate and a
\* replacement r of at most one character
ReplaceChars(s, Drop(_), r) ==
  IF r = <<>> THEN SelectSeq(s, LAMBDA c : ~Drop(c))
  ELSE [i \in 1..Len(s) |-> IF Drop(s[i]) THEN r[1] ELSE s[i]]

IsSpace(c) == c = " "

\* s.split(/\s+/).filter(Boolean): the maximal runs of non-space characters
words(s) ==
  LET starts == { i \in 1..Len(s) : ~IsSpace(s[i]) /\ (i = 1 \/ IsSpace(s[i - 1])) }
      StartOf(k) == CHOOSE i \in starts : Cardinality({ j \in starts : j < i }) = k - 1
      EndOf(i) == CHOOSE e \in i..Len(s) :
                    /\ \A j \in i..e : ~IsSpace(s[j])
                    /\ (e = Len(s) \/ IsSpace(s[e + 1]))
  IN [k \in 1..Cardinality(starts) |-> SubSeq(s, StartOf(k), EndOf(StartOf(k)))]

\* String.prototype.trim
RECURSIVE TrimLeft(_)
TrimLeft(s) == IF s # <<>> /\ IsSpace(Head(s)) THEN TrimLeft(Tail(s)) ELSE s
RECURSIVE TrimRight(_)
TrimRight(s) == IF s # <<>> /\ IsSpace(s[Len(s)]) THEN TrimRight(SubSeq(s, 1, Len(s) - 1)) ELSE s
trim(s) == TrimRight(TrimLeft(s))

\* Array.prototype.join(" ")
RECURSIVE JoinWords(_)
JoinWords(ws) ==
  IF ws = <<>> THEN <<>>
  ELSE IF Len(ws) = 1 THEN ws[1]
  ELSE ws[1] \o <<" ">> \o JoinWords(Tail(ws))

SeqToSet(s) == { s[i] : i \in 1..Len(s) }

\* the element of a one-element set: The({ e : x \in {v} }) is e with x naming
\* the value v, computed once
The(S) == CHOOSE v \in S : TRUE

\* the index of the first element satisfying a test, 0 when there is none
\* (Array.prototype.find / findIndex)
FirstIndex(s, Test(_)) ==
  IF \E i \in 1..Len(s) : Test(s[i])
  THEN CHOOSE i \in 1..Len(s) : Test(s[i]) /\ \A j \in 1..(i - 1) : ~Test(s[j])
  ELSE 0

\* decimal digits of a natural number
RECURSIVE NatToStr(_)
NatToStr(n) == IF n < 10 THEN <<DigitChars[n + 1]>>
               ELSE NatToStr(n \div 10) \o <<DigitChars[(n % 10) + 1]>>

\* String(n) for an integer n
IntToStr(n) == IF n < 0 THEN <<"-">> \o NatToStr(0 - n) ELSE NatToStr(n)

-----------------------------------------------------------------------------
(* JavaScript values held in row cells                                     *)

UNDEF == <<"undefined">>                 \* a missing property
StrV(s) == [k |-> "str", s |-> s, n |-> 0]
NumV(n) == [k |-> "num", s |-> <<>>, n |-> n]
UndefV == [k |-> "undef", s |-> <<>>, n |-> 0]

\* row[field]
Cell(row, f) == IF f \in DOMAIN row THEN row[f] ELSE UndefV

\* String(v)
ToStr(v) == CASE v.k = "str" -> v.s
              [] v.k = "num" -> IntToStr(v.n)
              [] v.k = "null" -> <<"n","u","l","l">>
              [] OTHER -> <<"u","n","d","e","f","i","n","e","d">>

\* v ?? ""
NullishOrEmpty(v) == IF v.k \in {"null", "undef"} THEN StrV(<<>>) ELSE v

\* !v
Falsy(v) == \/ v.k \in {"null", "undef"}
            \/ (v.k = "str" /\ v.s = <<>>)
            \/ (v.k = "num" /\ v.n = 0)

\* v || ""
OrEmpty(v) == IF Falsy(v) THEN StrV(<<>>) ELSE v

\* /[^0-9.\-]/
NotNumericChar(c) == ~(IsDigit(c) \/ c = "." \/ c = "-")

RECURSIVE DigitsVal(_, _)
DigitsVal(s, acc) == IF s = <<>> THEN acc ELSE DigitsVal(Tail(s), acc * 10 + DigitVal(Head(s)))

AllDigits(s) == \A i \in 1..Len(s) : IsDigit(s[i])

\* a JavaScript number: NaN or an integer
Num(n) == [nan |-> FALSE, v |-> n]
NaN == [nan |-> TRUE, v |-> 0]

\* a comparison of two numbers: false as soon as one of them is NaN
NumCompare(op, a, b) ==
  /\ ~a.nan
  /\ ~b.nan
  /\ CASE op = "=" -> a.v = b.v
       [] op = ">" -> a.v > b.v
       [] op = "<" -> a.v < b.v
       [] op = ">=" -> a.v >= b.v
       [] op = "<=" -> a.v <= b.v

\* Number(s) for a string over the characters 0-9 . - : the empty string is 0,
\* [-]digits[.digits] and [-].digits are decimal literals, anything else is NaN.
\* Values are integers: the cells of the model carry no non-zero fraction digit.
UnsignedNumber(s) ==
  LET dot == FirstIndex(s, LAMBDA c : c = ".")
      ip == IF dot = 0 THEN s ELSE SubSeq(s, 1, dot - 1)
      fp == IF dot = 0 THEN <<>> ELSE SubSeq(s, dot + 1, Len(s))
  IN IF s = <<>> \/ ~AllDigits(ip) \/ ~AllDigits(fp) \/ (ip = <<>> /\ fp = <<>>)
     THEN NaN
     ELSE Num(DigitsVal(ip, 0))

JSNumber(s) ==
  IF s = <<>> THEN Num(0)
  ELSE IF Head(s) = "-"
       THEN LET u == UnsignedNumber(Tail(s)) IN [nan |-> u.nan, v |-> 0 - u.v]
       ELSE UnsignedNumber(s)

\* Number(String(x).replace(/[^0-9.\-]/g, ""))
StripNumber(v) == JSNumber(ReplaceChars(ToStr(v), NotNumericChar, <<>>))

-----------------------------------------------------------------------------
(* Concept mapper (js/conceptMapper.js)                                    *)

SEMANTIC_GROUPS == <<
  <<<<"b","r","a","n","c","h">>, <<"b","r","a","n","c","h","_","n","u","m","b","e","r">>, <<"b","r","a","n","c","h","n","u","m","b","e","r">>, <<"l","o","c","a","t","i","o","n">>, <<"o","f","f","i","c","e">>, <<"b","r","a","n","c","h","_","i","d">>>>,
  <<<<"o","f","f","i","c","e","r">>, <<"o","f","f","i","c","e","r","_","i","d">>, <<"o","f","f","i","c","e","r","i","d">>, <<"r","m">>, <<"r","m","_","i","d">>, <<"r","e","l","a","t","i","o","n","s","h","i","p","_","m","a","n","a","g","e","r">>, <<"r","e","l","a","t","i","o","n","s","h","i","p","m","a","n","a","g","e","r">>, <<"r","e","l","a","t","i","o","n","s","h","i","p","_","m","g","r">>, <<"r","e","l","a","t","i","o","n","s","h","i","p">>, <<"m","a","n","a","g","e","r">>, <<"o","w","n","e","r">>, <<"o","w","n","e","r","_","i","d">>, <<"o","w","n","e","r","i","d">>, <<"o","w","n","e","r","_","c","o","d","e">>, <<"o","w","n","e","r","c","o","d","e">>>>,
  <<<<"c","l","a","s","s">>, <<"t","y","p","e">>, <<"c","a","t","e","g","o","r","y">>, <<"g","r","o","u","p">>, <<"c","l","a","s","s","i","f","i","c","a","t","i","o","n">>, <<"c","l","a","s","s","_","c","o","d","e">>, <<"c","l","a","s","s","c","o","d","e">>, <<"k","i","n","d">>>>,
  <<<<"p","r","i","n","c","i","p","a","l">>, <<"l","o","a","n","_","a","m","o","u","n","t">>, <<"a","m","o","u","n","t">>, <<"b","a","l","a","n","c","e">>, <<"o","r","i","g","i","n","a","t","i","o","n">>, <<"l","o","a","n","_","b","a","l","a","n","c","e">>, <<"p","r","i","n","c","i","p","a","l","_","a","m","o","u","n","t">>>>,
  <<<<"c","h","e","c","k","i","n","g">>, <<"c","h","e","c","k","i","n","g","_","b","a","l","a","n","c","e">>, <<"c","h","e","c","k","i","n","g","_","a","c","c","o","u","n","t">>, <<"c","h","e","c","k","i","n","g","_","a","m","o","u","n","t">>>>,
  <<<<"d","e","p","o","s","i","t">>, <<"d","e","p","o","s","i","t","_","b","a","l","a","n","c","e">>, <<"d","e","p","o","s","i","t","_","a","m","o","u","n","t">>, <<"d","e","p","o","s","i","t","_","a","c","c","o","u","n","t">>>>,
  <<<<"r","a","t","e">>, <<"r","a","t","e","s">>, <<"i","n","t","e","r","e","s","t","_","r","a","t","e">>, <<"i","n","t","e","r","e","s","t">>, <<"a","p","r">>, <<"a","p","y">>>>,
  <<<<"c","l","o","s","e">>, <<"c","l","o","s","e","d">>, <<"m","a","t","u","r","i","t","y">>, <<"p","a","i","d">>, <<"o","f","f">>, <<"c","l","o","s","e","_","d","a","t","e">>, <<"m","a","t","u","r","i","t","y","_","d","a","t","e">>, <<"p","a","i","d","_","o","f","f">>>>,
  <<<<"o","p","e","n">>, <<"o","p","e","n","e","d">>, <<"o","r","i","g","i","n","a","t","i","o","n">>, <<"s","t","a","r","t">>, <<"o","p","e","n","_","d","a","t","e">>, <<"d","a","t","e","_","o","p","e","n","e","d">>, <<"o","r","i","g","i","n","a","t","i","o","n","_","d","a","t","e">>>>,
  <<<<"c","u","s","t","o","m","e","r">>, <<"c","u","s","t","o","m","e","r","_","i","d">>, <<"m","e","m","b","e","r">>, <<"m","e","m","b","e","r","_","i","d">>, <<"c","l","i","e","n","t">>, <<"c","l","i","e","n","t","_","i","d">>>>,
  <<<<"p","o","r","t","f","o","l","i","o">>, <<"p","o","r","t","f","o","l","i","o","_","i","d">>, <<"a","c","c","o","u","n","t">>, <<"a","c","c","o","u","n","t","_","i","d">>, <<"r","e","f","e","r","e","n","c","e">>, <<"i","d">>>>
>>

NOUN_ADJUNCT_PATTERNS == <<<<"n","u","m","b","e","r">>, <<"i","d">>, <<"c","o","d","e">>, <<"k","e","y">>, <<"r","e","f","e","r","e","n","c","e">>, <<"i","d","e","n","t","i","f","i","e","r">>>>

\* stemPlural: -ies -> -y, -es dropped, -s dropped
stemPlural(word) ==
  IF endsWith(word, <<"i","e","s">>) THEN SubSeq(word, 1, Len(word) - 3) \o <<"y">>
  ELSE IF endsWith(word, <<"e","s">>) THEN SubSeq(word, 1, Len(word) - 2)
  ELSE IF endsWith(word, <<"s">>) THEN SubSeq(word, 1, Len(word) - 1)
  ELSE word

IsUnderscoreOrDash(c) == c = "_" \/ c = "-"

\* name.replace(/[_\-]/g, " ").split(/\s+/).map(lower).filter(Boolean)
tokenizeFieldName(name) ==
  The({ [i \in 1..Len(ws) |-> toLowerCase(ws[i])]
        : ws \in {words(ReplaceChars(name, IsUnderscoreOrDash, <<" ">>))} })

extractBaseNoun(concept) ==
  The({ IF Len(tokens) > 1 /\ tokens[Len(tokens)] \in SeqToSet(NOUN_ADJUNCT_PATTERNS)
        THEN JoinWords(SubSeq(tokens, 1, Len(tokens) - 1))
        ELSE concept
        : tokens \in {tokenizeFieldName(concept)} })

\* findSemanticGroups(word): the indexes of the groups in which some token of
\* the word occurs exactly or as a substring of a member, or has a member as a
\* substring
SemanticGroupsOf(word) ==
  The({ { i \in 1..Len(groups) :
            \E t \in 1..Len(tokens) :
              \E g \in 1..Len(groups[i]) :
                 \/ groups[i][g] = tokens[t]
                 \/ includes(tokens[t], groups[i][g])
                 \/ includes(groups[i][g], tokens[t]) }
        : tokens \in {tokenizeFieldName(toLowerCase(word))}, groups \in {SEMANTIC_GROUPS} })

\* the words the inputs of the model are made of, with their groups computed once
KnownWords == {
  <<"p","o","r","t","f","o","l","i","o">>, <<"p","r","i","n","c","i","p","a","l">>,
  <<"b","a","l","a","n","c","e">>, <<"b","r","a","n","c","h">>, <<"s","t","a","t","u","s">>,
  <<"o","p","e","n">>, <<"r","a","t","e">>, <<"t","y","p","e">>, <<"n","a","m","e">>,
  <<"n","u","m","b","e","r">>, <<"m","a","t","u","r","i","t","y">>, <<"l","o","a","n">> }

KnownGroups == [w \in KnownWords |-> SemanticGroupsOf(w)]

findSemanticGroups(word) ==
  IF word \in KnownWords THEN KnownGroups[word] ELSE SemanticGroupsOf(word)

RECURSIVE SumSeq(_)
SumSeq(s) == IF s = <<>> THEN 0 ELSE Head(s) + SumSeq(Tail(s))

scoreFieldForConcept(fieldName, conceptWord) ==
  The({ The({
    LET fieldGroups == UNION { groupsOf[fieldTokens[i]] : i \in 1..Len(fieldTokens) }
        conceptGroups == UNION { groupsOf[conceptTokens[i]] : i \in 1..Len(conceptTokens) }
        pair(t, c) ==
          IF groupsOf[t] \cap groupsOf[c] # {}
          THEN (IF t = c THEN 3 ELSE 2)
          ELSE IF includes(t, c) \/ includes(c, t) THEN 1 ELSE 0
        perField(t) == SumSeq([j \in 1..Len(conceptTokens) |-> pair(t, conceptTokens[j])])
    IN IF fieldTokens = <<>> \/ conceptTokens = <<>> THEN 0
       ELSE IF fieldGroups \cap conceptGroups = {} THEN 0
       ELSE SumSeq([i \in 1..Len(fieldTokens) |-> perField(fieldTokens[i])])
    : groupsOf \in {[t \in SeqToSet(fieldTokens) \cup SeqToSet(conceptTokens) |->
                       findSemanticGroups(t)]} })
    : fieldTokens \in {tokenizeFieldName(fieldName)},
      conceptTokens \in {tokenizeFieldName(conceptWord)} })

\* the dataType test both the exact-base-noun rule and the scoring loop apply
TypeCompatible(cond, f) ==
  /\ (cond.valueType # "number" \/ f.dataType \in {"number", "integer", "currency"})
  /\ (cond.valueType # "date" \/ f.dataType = "date")

\* the scoring loop: the first field with the highest score, started at -1
RECURSIVE BestField(_, _, _, _, _)
BestField(fields, cond, i, bestIdx, bestScore) ==
  IF i > Len(fields) THEN [idx |-> bestIdx, score |-> bestScore]
  ELSE IF ~TypeCompatible(cond, fields[i]) THEN BestField(fields, cond, i + 1, bestIdx, bestScore)
  ELSE The({ IF s > bestScore THEN BestField(fields, cond, i + 1, i, s)
             ELSE BestField(fields, cond, i + 1, bestIdx, bestScore)
             : s \in {scoreFieldForConcept(fields[i].name, cond.concept)} })

\* the translated-condition rule: the first member of the semantic group of the
\* stemmed translation source that names a field of the schema
MapTranslated(fields, cond, metaTypes) ==
  The({ The({
    IF ~(stemmedSource \in metaTypes) \/ gi = 0 THEN cond
    ELSE The({
      IF pi = 0 THEN cond
      ELSE The({ IF ai = 0 THEN cond ELSE [cond EXCEPT !.field = toLowerCase(fields[ai].id)]
                 : ai \in {FirstIndex(fields, LAMBDA f :
                              toLowerCase(f.name) = toLowerCase(groups[gi][pi]))} })
      : pi \in {FirstIndex(groups[gi],
                  LAMBDA fieldName : \E f \in 1..Len(fields) :
                     toLowerCase(fields[f].name) = toLowerCase(fieldName))} })
    : gi \in {FirstIndex(groups,
                LAMBDA group : \E t \in 1..Len(group) :
                   toLowerCase(group[t]) = toLowerCase(stemmedSource))} })
    : stemmedSource \in {stemPlural(cond.translationSource)}, groups \in {SEMANTIC_GROUPS} })

\* the body of conditions.map(cond => ...) in mapConceptsToFields
MapCondition(fields, cond, metaTypes) ==
  IF cond.function THEN cond
  ELSE IF cond.translated /\ cond.translationSource # <<>> THEN MapTranslated(fields, cond, metaTypes)
  ELSE IF cond.concept = <<>> THEN cond
  ELSE
    LET baseNoun == extractBaseNoun(cond.concept)
        exact == FirstIndex(fields, LAMBDA f :
                   toLowerCase(f.name) = toLowerCase(baseNoun) /\ TypeCompatible(cond, f))
        direct == FirstIndex(fields, LAMBDA f :
                   \/ toLowerCase(f.name) = toLowerCase(cond.concept)
                   \/ toLowerCase(f.id) = toLowerCase(cond.concept))
    IN The({ IF hit # 0 THEN [cond EXCEPT !.field = fields[hit].id]
             ELSE The({ IF best.idx = 0 \/ best.score <= 0
                        THEN The({ IF d # 0 THEN [cond EXCEPT !.field = fields[d].id] ELSE cond
                                   : d \in {direct} })
                        ELSE [cond EXCEPT !.field = fields[best.idx].id]
                        : best \in {BestField(fields, cond, 1, 0, -1)} })
             : hit \in {exact} })

\* window.DB.getSchema: the schema of a source, or none
HasSchema(sch, sourceId) == sourceId \in DOMAIN sch

\* the conditions mapped from the last to the first
mapConceptsToFields_Reversed(sch, metaTypes, sourceId, conditions) ==
  IF ~HasSchema(sch, sourceId) \/ sch[sourceId] = <<>> THEN conditions
  ELSE [i \in 1..Len(conditions) |->
          MapCondition(sch[sourceId], conditions[Len(conditions) + 1 - i], metaTypes)]

\* mapConceptsToFields(sourceId, conditions), reading the schema store sch
mapConceptsToFields(sch, metaTypes, sourceId, conditions) ==
  IF ~HasSchema(sch, sourceId) \/ sch[sourceId] = <<>> THEN conditions
  ELSE [i \in 1..Len(conditions) |-> MapCondition(sch[sourceId], conditions[i], metaTypes)]

-----------------------------------------------------------------------------
(* Conditions and plans                                                    *)

NoRelativeTime == [unit |-> "", value |-> 0]

\* a condition as the parser builds it: no field yet
Cond(concept, op, value, valueMin, valueMax, valueType) ==
  [concept |-> concept, op |-> op, value |-> Num(value), valueMin |-> Num(valueMin),
   valueMax |-> Num(valueMax), valueType |-> valueType, field |-> UNDEF,
   absoluteDate |-> UNDEF, relativeTime |-> NoRelativeTime,
   function |-> FALSE, translated |-> FALSE, translationSource |-> <<>>]

\* JavaScript truthiness of an optional string property
Truthy(s) == s # UNDEF /\ s # <<>>

-----------------------------------------------------------------------------
(* Predicates (js/queryEngine.js)                                          *)

\* buildNumericPredicate(cond)(row)
buildNumericPredicate(cond, row) ==
  LET v == StripNumber(NullishOrEmpty(Cell(row, cond.field)))
  IN IF ~Truthy(cond.field) THEN FALSE
     ELSE IF cond.op = "between"
          THEN (IF v.nan THEN FALSE
                ELSE NumCompare(">=", v, cond.valueMin) /\ NumCompare("<=", v, cond.valueMax))
     ELSE IF cond.op \in {"=", ">", "<", ">=", "<="}
          THEN (IF v.nan THEN FALSE ELSE NumCompare(cond.op, v, cond.value))
     ELSE TRUE

\* new Date(text) for the date texts of the model: YYYY-MM-DD and the ISO
\* instant of such a day are dates, any other text is an invalid date.  A date is the ordinal year*372 + month*31 + day.
IsIsoDate(s) ==
  /\ Len(s) = 10 /\ s[5] = "-" /\ s[8] = "-"
  /\ \A i \in {1, 2, 3, 4, 6, 7, 9, 10} : IsDigit(s[i])

DateOrd(s) == DigitsVal(SubSeq(s, 1, 4), 0) * 372 + DigitsVal(SubSeq(s, 6, 7), 0) * 31
              + DigitsVal(SubSeq(s, 9, 10), 0)

\* the text toISOString() gives for midnight UTC of a day
IsIsoInstant(s) ==
  /\ Len(s) = 24 /\ IsIsoDate(SubSeq(s, 1, 10))
  /\ SubSeq(s, 11, 24) = <<"T","0","0",":","0","0",":","0","0",".","0","0","0","Z">>

ParseDate(v) == IF v.k = "str" /\ (IsIsoDate(v.s) \/ IsIsoInstant(v.s))
                THEN [nan |-> FALSE, v |-> DateOrd(v.s)]
                ELSE [nan |-> TRUE, v |-> 0]

\* new Date(): the day the query runs
Today == DateOrd(<<"2","0","2","6","-","0","1","-","1","5">>)

\* buildDatePredicate(cond)(row)
buildDatePredicate(cond, row) ==
  LET d == ParseDate(Cell(row, cond.field))
      cmp(boundary) == IF d.nan THEN FALSE
                       ELSE IF cond.op = "after" THEN d.v >= boundary
                       ELSE IF cond.op = "before" THEN d.v <= boundary
                       ELSE FALSE
      rel == cond.relativeTime
      relBoundary == IF rel.unit = "months" THEN Today - 31 * rel.value
                     ELSE IF rel.unit = "years" THEN Today - 372 * rel.value
                     ELSE IF rel.unit = "days" THEN Today - rel.value
                     ELSE Today
  IN IF ~Truthy(cond.field) THEN FALSE
     ELSE IF Truthy(cond.absoluteDate)
          THEN (IF ParseDate(StrV(cond.absoluteDate)).nan THEN FALSE
                ELSE cmp(ParseDate(StrV(cond.absoluteDate)).v))
     ELSE IF rel.unit = "" THEN FALSE
     ELSE cmp(relBoundary)

\* buildPredicate(cond)(row)
buildPredicate(cond, row) ==
  IF cond.valueType = "number" THEN buildNumericPredicate(cond, row)
  ELSE IF cond.valueType = "date" THEN buildDatePredicate(cond, row)
  ELSE TRUE

\* the keep test of the two filter loops
Keep(logic, conditions, row) ==
  IF logic = "AND" THEN \A i \in 1..Len(conditions) : buildPredicate(conditions[i], row)
  ELSE IF logic = "OR" THEN \E i \in 1..Len(conditions) : buildPredicate(conditions[i], row)
  ELSE TRUE

\* queryPlan.logicalOp || "AND"
Logic(queryPlan) == IF queryPlan.logicalOp = "" THEN "AND" ELSE queryPlan.logicalOp

\* window.DB.getAllRows(sourceId): storage.rows.get(sourceId) || []
getAllRows(rowStore, sourceId) == IF sourceId \in DOMAIN rowStore THEN rowStore[sourceId] ELSE <<>>

TagRow(row, sourceId) == [row |-> row, _sourceId |-> sourceId]

executeQueryFromSource_IgnoreUnmapped(rowStore, queryPlan, source, conditions) ==
  LET allRows == getAllRows(rowStore, source.sourceId)
      kept == SelectSeq(allRows, LAMBDA row : Keep(Logic(queryPlan), conditions, row))
  IN [i \in 1..Len(kept) |-> TagRow(kept[i], source.sourceId)]

\* executeQueryFromSource(queryPlan, source, conditions)
executeQueryFromSource(rowStore, queryPlan, source, conditions) ==
  LET allRows == getAllRows(rowStore, source.sourceId)
      hasUnmappedConditions == \E i \in 1..Len(conditions) : ~Truthy(conditions[i].field)
      kept == SelectSeq(allRows, LAMBDA row : Keep(Logic(queryPlan), conditions, row))
  IN IF allRows = <<>> THEN <<>>
     ELSE IF hasUnmappedConditions THEN <<>>
     ELSE [i \in 1..Len(kept) |-> TagRow(kept[i], source.sourceId)]

-----------------------------------------------------------------------------
(* Data manager (js/dataManager.js)                                        *)

S_loan == <<"l","o","a","n">>
S_loans == <<"l","o","a","n","s">>
S_checking == <<"c","h","e","c","k","i","n","g">>
S_dda == <<"d","d","a">>
S_deposit == <<"d","e","p","o","s","i","t">>
S_deposits == <<"d","e","p","o","s","i","t","s">>
S_customer == <<"c","u","s","t","o","m","e","r">>
S_customers == <<"c","u","s","t","o","m","e","r","s">>
S_branch == <<"b","r","a","n","c","h">>
S_branches == <<"b","r","a","n","c","h","e","s">>
S_data == <<"d","a","t","a">>

\* detectEntityTypes(source)
detectEntityTypes(source) ==
  LET name == toLowerCase(source.name)
      fileName == toLowerCase(source.originalFileName)
      has(w) == includes(name, w) \/ includes(fileName, w)
      entities ==
        (IF has(S_loan) THEN <<S_loans>> ELSE <<>>)
        \o (IF has(S_checking) \/ has(S_dda) THEN <<S_checking>> ELSE <<>>)
        \o (IF has(S_deposit) THEN <<S_deposits>> ELSE <<>>)
        \o (IF has(S_customer) THEN <<S_customers>> ELSE <<>>)
        \o (IF has(S_branch) THEN <<S_branches>> ELSE <<>>)
  IN IF Len(entities) > 0 THEN entities ELSE <<S_data>>

NoSource == [sourceId |-> UNDEF, name |-> <<>>, originalFileName |-> <<>>]

\* pickSourceForEntity(entity, sourcesMeta): the first source one of whose
\* detected entity types equals the entity, or none
pickSourceForEntity(entity, meta) ==
  LET lowerEntity == toLowerCase(entity)
      i == FirstIndex(meta, LAMBDA s :
             \E e \in 1..Len(detectEntityTypes(s)) :
                toLowerCase(detectEntityTypes(s)[e]) = lowerEntity)
  IN IF i = 0 THEN NoSource ELSE meta[i]

-----------------------------------------------------------------------------
(* Multi-source planning (js/queryEngine.js)                               *)

S_Portfolio == <<"P","o","r","t","f","o","l","i","o">>
S_Portfolio_ID == <<"P","o","r","t","f","o","l","i","o","_","I","D">>
S_ID == <<"I","D">>
S_Customer_ID == <<"C","u","s","t","o","m","e","r","_","I","D">>
S_Account_ID == <<"A","c","c","o","u","n","t","_","I","D">>
S_Reference == <<"R","e","f","e","r","e","n","c","e">>

UniqueIdCandidates == <<S_Portfolio, S_Portfolio_ID, S_ID, S_Customer_ID, S_Account_ID, S_Reference>>

\* the fields of every source of the list that has a schema, in list order
RECURSIVE AllFields(_, _)
AllFields(sch, meta) ==
  IF meta = <<>> THEN <<>>
  ELSE (IF HasSchema(sch, Head(meta).sourceId) THEN sch[Head(meta).sourceId] ELSE <<>>)
       \o AllFields(sch, Tail(meta))

\* findUniqueIdentifierField(sourcesMeta)
findUniqueIdentifierField(sch, meta) ==
  LET fields == AllFields(sch, meta)
      byRole == FirstIndex(fields, LAMBDA f : f.roleGuess = "candidateId")
      byName == FirstIndex(UniqueIdCandidates, LAMBDA c :
                  \E i \in 1..Len(fields) : fields[i].id = c \/ fields[i].name = c)
  IN IF byRole # 0 THEN fields[byRole].id
     ELSE IF byName # 0 THEN UniqueIdCandidates[byName]
     ELSE S_Portfolio

\* the heuristics table: pattern alternatives and score
Heuristics == <<
  [alts |-> << <<"p","r","i","n","c","i","p","a","l">> >>, score |-> 5],
  [alts |-> << <<"o","u","t","s","t","a","n","d","i","n","g">> >>, score |-> 3],
  [alts |-> << <<"a","v","e","r","a","g","e">>, <<"a","v","g">> >>, score |-> 3],
  [alts |-> << <<"b","a","l","a","n","c","e">> >>, score |-> 5],
  [alts |-> << <<"a","m","o","u","n","t">> >>, score |-> 2],
  [alts |-> << <<"v","a","l","u","e">> >>, score |-> 1] >>

\* h.pattern.source: the alternatives joined by |
RECURSIVE PatternSource(_)
PatternSource(alts) ==
  IF Len(alts) = 1 THEN alts[1] ELSE alts[1] \o <<"|">> \o PatternSource(Tail(alts))

\* /\\|\/|i/
IsBackslashSlashOrI(c) == c = "\\" \/ c = "/" \/ c = "i"

\* h.pattern.source.replace(/\\|\/|i/g, '').toLowerCase()
ExactWord(h) == toLowerCase(ReplaceChars(PatternSource(h.alts), IsBackslashSlashOrI, <<>>))

\* the score of one field in identifyValuationFields
ValuationScore(field) ==
  LET name == toLowerCase(field.name)
      id == toLowerCase(field.id)
      test(h) == \E a \in 1..Len(h.alts) : includes(name, h.alts[a]) \/ includes(id, h.alts[a])
      one(h) == IF test(h)
                THEN h.score + (IF name = ExactWord(h) \/ id = ExactWord(h) THEN 1 ELSE 0)
                ELSE 0
  IN SumSeq([i \in 1..Len(Heuristics) |-> one(Heuristics[i])])

\* the first field with the highest score above 0
RECURSIVE BestValuation(_, _, _, _)
BestValuation(fields, i, bestIdx, bestScore) ==
  IF i > Len(fields) THEN bestIdx
  ELSE IF ValuationScore(fields[i]) > bestScore
       THEN BestValuation(fields, i + 1, i, ValuationScore(fields[i]))
       ELSE BestValuation(fields, i + 1, bestIdx, bestScore)

\* identifyValuationFields(sourcesMeta)
identifyValuationFields(sch, meta) ==
  LET fields == AllFields(sch, meta)
      best == BestValuation(fields, 1, 0, 0)
  IN IF best # 0 /\ Truthy(fields[best].id) THEN <<fields[best].id>> ELSE <<>>

\* Array.from(new Set(list)): the first occurrences, in order
RECURSIVE Dedup(_, _)
Dedup(s, seen) ==
  IF s = <<>> THEN <<>>
  ELSE IF Head(s) \in seen THEN Dedup(Tail(s), seen)
  ELSE <<Head(s)>> \o Dedup(Tail(s), seen \cup {Head(s)})

RECURSIVE Flatten(_)
Flatten(ss) == IF ss = <<>> THEN <<>> ELSE Head(ss) \o Flatten(Tail(ss))

\* the sources whose first detected entity type, or whose name, is a target entity
matchedSources(queryPlan, meta) ==
  IF Len(queryPlan.targetEntities) > 0
  THEN SelectSeq(meta, LAMBDA s :
         \/ toLowerCase(detectEntityTypes(s)[1]) \in SeqToSet(queryPlan.targetEntities)
         \/ toLowerCase(s.name) \in SeqToSet(queryPlan.targetEntities))
  ELSE meta

\* the valuation fields executeMultiSourceQuery collects
collectValuationFields(sch, queryPlan, meta) ==
  LET ms == matchedSources(queryPlan, meta)
  IN Dedup(Flatten([i \in 1..Len(ms) |-> identifyValuationFields(sch, <<ms[i]>>)]), {})

\* the sources executeMultiSourceQuery queries: one per target entity that has one
sourcesToQuery(queryPlan, meta) ==
  LET picked == [i \in 1..Len(queryPlan.targetEntities) |->
                   pickSourceForEntity(queryPlan.targetEntities[i], meta)]
  IN SelectSeq(picked, LAMBDA s : s # NoSource)

-----------------------------------------------------------------------------
(* Multi-source aggregation (js/queryEngine.js)                            *)

\* the grouping loop: a Map from unique-id value to {_rows, _sources}, in
\* insertion order; rows with a falsy unique-id value are skipped
RECURSIVE GroupRows(_, _, _)
GroupRows(tagged, uniqueId, grouped) ==
  IF tagged = <<>> THEN grouped
  ELSE LET t == Head(tagged)
           idValue == Cell(t.row, uniqueId)
           gi == FirstIndex(grouped, LAMBDA g : g.id = idValue)
       IN IF Falsy(idValue) THEN GroupRows(Tail(tagged), uniqueId, grouped)
          ELSE IF gi = 0
               THEN GroupRows(Tail(tagged), uniqueId,
                      Append(grouped, [id |-> idValue, _rows |-> <<t>>, _sources |-> <<t._sourceId>>]))
               ELSE GroupRows(Tail(tagged), uniqueId,
                      [grouped EXCEPT ![gi] =
                         [@ EXCEPT !._rows = Append(@, t),
                                   !._sources = IF t._sourceId \in SeqToSet(@) THEN @
                                                ELSE Append(@, t._sourceId)]])

\* the summing loop over group._rows for one valuation field
RECURSIVE SumField(_, _, _)
SumField_FirstRowOnly(groupRows, field, sum) ==
  IF groupRows = <<>> THEN sum
  ELSE LET val == StripNumber(OrEmpty(Cell(Head(groupRows).row, field)))
       IN IF val.nan THEN sum ELSE sum + val.v
SumField(groupRows, field, sum) ==
  IF groupRows = <<>> THEN sum
  ELSE LET val == StripNumber(OrEmpty(Cell(Head(groupRows).row, field)))
       IN SumField(Tail(groupRows), field, IF val.nan THEN sum ELSE sum + val.v)

\* row[field] != null && row[field] !== ""
NonEmptyCell(v) == ~(v.k \in {"null", "undef"}) /\ ~(v.k = "str" /\ v.s = <<>>)

IsAggregated_AnyRow(groupRows) == Len(groupRows) > 0

\* group._rows.length > 1
IsAggregated(groupRows) == Len(groupRows) > 1

\* the aggregation of one group
Aggregate(group, uniqueId, columns, valuationFields) ==
  LET conditionFields == SelectSeq(columns, LAMBDA c :
                           c # uniqueId /\ ~(c \in SeqToSet(valuationFields)))
      firstWith(field) == FirstIndex(group._rows, LAMBDA t : NonEmptyCell(Cell(t.row, field)))
      condKeys == { c \in SeqToSet(conditionFields) : firstWith(c) # 0 }
      keys == {uniqueId} \cup SeqToSet(valuationFields) \cup condKeys
  IN [vals |-> [f \in keys |->
                  IF f \in condKeys THEN Cell(group._rows[firstWith(f)].row, f)
                  ELSE IF f \in SeqToSet(valuationFields) THEN NumV(SumField(group._rows, f, 0))
                  ELSE group.id],
      _isAggregated |-> IsAggregated(group._rows),
      _subRows |-> group._rows,
      _sourceIds |-> group._sources]

\* combineMultiSourceResults(sourceResults, uniqueId, columns, valuationFields)
combineMultiSourceResults(sourceResults, uniqueId, columns, valuationFields) ==
  LET grouped == GroupRows(Flatten([i \in 1..Len(sourceResults) |-> sourceResults[i].rows]),
                           uniqueId, <<>>)
  IN [i \in 1..Len(grouped) |-> Aggregate(grouped[i], uniqueId, columns, valuationFields)]

-----------------------------------------------------------------------------
(* Query execution (js/queryEngine.js)                                     *)

EmptyResult(queryPlan) ==
  [kind |-> "empty", rows |-> <<>>, groups |-> <<>>, usedSources |-> <<>>,
   uniqueId |-> UNDEF, columns |-> <<>>, valuationFields |-> <<>>,
   sourceResults |-> <<>>, plan |-> queryPlan]

\* the loop of executeMultiSourceQuery over the sources to query: a source
\* without schema is skipped, the others are mapped and filtered
SourceResults(sch, rowStore, metaTypes, queryPlan, stq) ==
  LET withSchema == SelectSeq(stq, LAMBDA s : HasSchema(sch, s.sourceId))
  IN [i \in 1..Len(withSchema) |->
        The({ [source |-> withSchema[i],
               mapped |-> mappedConditions,
               rows |-> executeQueryFromSource(rowStore, queryPlan, withSchema[i],
                                               mappedConditions)]
              : mappedConditions \in {mapConceptsToFields(sch, metaTypes, withSchema[i].sourceId,
                                                          queryPlan.conditions)} })]

\* executeMultiSourceQuery(queryPlan, sourcesMeta)
executeMultiSourceQuery(sch, rowStore, metaTypes, queryPlan, meta) ==
  The({
    IF stq = <<>> THEN EmptyResult(queryPlan)
    ELSE The({
      [kind |-> "multi", rows |-> <<>>,
       groups |-> combineMultiSourceResults(sourceResults, uniqueId, columns, valuationFields),
       usedSources |-> stq, uniqueId |-> uniqueId, columns |-> columns,
       valuationFields |-> valuationFields,
       sourceResults |-> sourceResults, plan |-> queryPlan]
      : uniqueId \in {IF Truthy(queryPlan.uniqueId) THEN queryPlan.uniqueId
                      ELSE findUniqueIdentifierField(sch, meta)},
        columns \in {IF queryPlan.hasColumns THEN queryPlan.columns ELSE <<>>},
        valuationFields \in {collectValuationFields(sch, queryPlan, meta)},
        sourceResults \in {SourceResults(sch, rowStore, metaTypes, queryPlan, stq)} })
    : stq \in {sourcesToQuery(queryPlan, meta)} })

\* the dispatch test of executeQueryPlan
IsMultiSource(queryPlan) ==
  Len(queryPlan.targetEntities) > 1 \/ (Truthy(queryPlan.uniqueId) /\ queryPlan.hasColumns)

\* executeQueryPlan(queryPlan, sourcesMeta)
executeQueryPlan(sch, rowStore, metaTypes, queryPlan, meta) ==
  IF queryPlan.targetEntities = <<>> THEN EmptyResult(queryPlan)
  ELSE IF IsMultiSource(queryPlan)
       THEN executeMultiSourceQuery(sch, rowStore, metaTypes, queryPlan, meta)
  ELSE
    The({
      IF candidateSource = NoSource THEN EmptyResult(queryPlan)
      ELSE The({
        IF allRows = <<>> THEN EmptyResult(queryPlan)
        ELSE [kind |-> "single",
              rows |-> SelectSeq(allRows, LAMBDA row : Keep(Logic(queryPlan), queryPlan.conditions, row)),
              groups |-> <<>>, usedSources |-> <<candidateSource>>,
              uniqueId |-> UNDEF, columns |-> <<>>, valuationFields |-> <<>>,
              sourceResults |-> <<>>, plan |-> queryPlan]
        : allRows \in {getAllRows(rowStore, candidateSource.sourceId)} })
      : candidateSource \in {pickSourceForEntity(queryPlan.targetEntities[1], meta)} })

-----------------------------------------------------------------------------
(* Translator registry (translator/translator_loader.js)                   *)

EmptyMap == [x \in {} |-> 0]

\* obj[k] = v
Put(map, k, v) == [x \in DOMAIN map \cup {k} |-> IF x = k THEN v ELSE map[x]]

\* normalizeMap that keeps every key as given, without its lowercased form
RECURSIVE normalizeMap_KeysAsGiven(_, _)
normalizeMap_KeysAsGiven(entries, normalized) ==
  IF entries = <<>> THEN normalized
  ELSE normalizeMap_KeysAsGiven(Tail(entries),
         Put(normalized, Head(entries).k, Head(entries).v))

\* normalizeMap(map): every key in its own case and lowercased, entry by entry
RECURSIVE normalizeMap(_, _)
normalizeMap(entries, normalized) ==
  IF entries = <<>> THEN normalized
  ELSE normalizeMap(Tail(entries),
         Put(Put(normalized, Head(entries).k, Head(entries).v),
             toLowerCase(Head(entries).k), Head(entries).v))

\* Object.assign(target, source)
ObjectAssign(target, source) ==
  [x \in DOMAIN target \cup DOMAIN source |-> IF x \in DOMAIN source THEN source[x] ELSE target[x]]

\* registerTranslator that replaces the map of the type by the new one
registerTranslator_Replace(registry, type, entries) ==
  IF type = <<>> THEN registry
  ELSE Put(registry, type, normalizeMap(entries, EmptyMap))

\* registerTranslator(type, map): the registry after the call
registerTranslator(registry, type, entries) ==
  IF type = <<>> THEN registry
  ELSE Put(registry, type,
           ObjectAssign(IF type \in DOMAIN registry THEN registry[type] ELSE EmptyMap,
                        normalizeMap(entries, EmptyMap)))

S_name == <<"n","a","m","e">>
S_officer == <<"o","f","f","i","c","e","r">>
S_rm == <<"r","m">>
S_id == <<"i","d">>

NoTranslator == [type |-> <<>>, idField |-> <<>>, nameField |-> <<>>]

\* detectTranslator(fields)
detectTranslator(fields) ==
  LET ii == FirstIndex(fields, LAMBDA f : f.dataType = "integer")
      si == FirstIndex(fields, LAMBDA f : f.dataType # "integer")
      il == toLowerCase(fields[ii].name)
      iid == toLowerCase(fields[ii].id)
      sl == toLowerCase(fields[si].name)
      sid == toLowerCase(fields[si].id)
      isBranchTranslator ==
        /\ (includes(il, S_branch) \/ includes(iid, S_branch))
        /\ (includes(sl, S_branch) \/ includes(sid, S_branch) \/ includes(sl, S_name))
      isOfficerTranslator ==
        /\ (includes(il, S_officer) \/ includes(iid, S_officer) \/ includes(il, S_rm)
            \/ includes(iid, S_rm) \/ includes(il, S_id))
        /\ (includes(sl, S_officer) \/ includes(sid, S_officer) \/ includes(sl, S_name))
  IN IF Len(fields) < 2 \/ ii = 0 \/ si = 0 THEN NoTranslator
     ELSE IF isBranchTranslator
          THEN [type |-> S_branches, idField |-> fields[ii].id, nameField |-> fields[si].id]
     ELSE IF isOfficerTranslator
          THEN [type |-> S_officer, idField |-> fields[ii].id, nameField |-> fields[si].id]
     ELSE NoTranslator

\* Number(v) for a raw cell
ToNumber(v) == CASE v.k = "num" -> [nan |-> FALSE, v |-> v.n]
                 [] v.k = "null" -> [nan |-> FALSE, v |-> 0]
                 [] v.k = "undef" -> [nan |-> TRUE, v |-> 0]
                 [] OTHER -> JSNumber(trim(v.s))

\* buildTranslatorMap(info, rows): the entries of the map, in insertion order
RECURSIVE buildTranslatorMap(_, _, _)
buildTranslatorMap(info, rws, entries) ==
  IF rws = <<>> THEN entries
  ELSE LET nameRaw == Cell(Head(rws), info.nameField)
           key == IF nameRaw.k \in {"null", "undef"} THEN <<>>
                  ELSE toLowerCase(trim(ToStr(nameRaw)))
           code == ToNumber(Cell(Head(rws), info.idField))
           at == FirstIndex(entries, LAMBDA e : e.k = key)
       IN IF key = <<>> \/ code.nan THEN buildTranslatorMap(info, Tail(rws), entries)
          ELSE IF at = 0 THEN buildTranslatorMap(info, Tail(rws), Append(entries, [k |-> key, v |-> code.v]))
          ELSE buildTranslatorMap(info, Tail(rws), [entries EXCEPT ![at].v = code.v])

\* the translator registration of importFiles for one file
RegisterFromImport(registry, fields, rws) ==
  LET info == detectTranslator(fields)
      map == buildTranslatorMap(info, rws, <<>>)
  IN IF info # NoTranslator /\ map # <<>> THEN registerTranslator(registry, info.type, map)
     ELSE registry

\* the keys of window.Translators._meta
MetaTypes(registry) == DOMAIN registry

-----------------------------------------------------------------------------
(* Storage (js/db.js) and source lifecycle (js/dataManager.js)             *)

\* storage.sources.set(sourceId, source): a Map keeps the position of a key
putSource(srcs, source) ==
  LET i == FirstIndex(srcs, LAMBDA s : s.sourceId = source.sourceId)
  IN IF i = 0 THEN Append(srcs, source) ELSE [srcs EXCEPT ![i] = source]

\* storage.rows: addRows appends to the rows already stored under the id
addRows(rowStore, sourceId, rws) ==
  Put(rowStore, sourceId, getAllRows(rowStore, sourceId) \o rws)

\* Map.prototype.delete
Remove(map, k) == [x \in DOMAIN map \ {k} |-> map[x]]

IsIdChar(c) == IsAlnum(c) \/ c = "_" \/ c = "-"
NotIdChar(c) == ~IsIdChar(c)

\* file.name.replace(/[^a-zA-Z0-9_-]/g, "_") + "_" + Date.now()
SourceIdFor(fileName, now) == ReplaceChars(fileName, NotIdChar, <<"_">>) \o <<"_">> \o IntToStr(now)

\* file.name.replace(/\.[^.]+$/, ""): the name without its last extension
BaseName(fileName) ==
  LET dots == { i \in 1..Len(fileName) : fileName[i] = "." }
      last == CHOOSE i \in dots : \A j \in dots : j <= i
  IN IF dots = {} \/ last = Len(fileName) THEN fileName ELSE SubSeq(fileName, 1, last - 1)

S_customerid == <<"c","u","s","t","o","m","e","r","i","d">>
S_customer_id == <<"c","u","s","t","o","m","e","r","_","i","d">>
S_memberid == <<"m","e","m","b","e","r","i","d">>
S_member_id == <<"m","e","m","b","e","r","_","i","d">>
S_accountid == <<"a","c","c","o","u","n","t","i","d">>
S_account_id == <<"a","c","c","o","u","n","t","_","i","d">>
S_portfolioid == <<"p","o","r","t","f","o","l","i","o","i","d">>
S_portfolio_id == <<"p","o","r","t","f","o","l","i","o","_","i","d">>
S_portfolio == <<"p","o","r","t","f","o","l","i","o">>
S_reference == <<"r","e","f","e","r","e","n","c","e">>

\* guessRole(name)
guessRole(name) ==
  LET lower == toLowerCase(name)
  IN IF \/ includes(lower, S_customerid) \/ includes(lower, S_customer_id)
        \/ includes(lower, S_memberid) \/ includes(lower, S_member_id)
        \/ includes(lower, S_accountid) \/ includes(lower, S_account_id)
        \/ includes(lower, S_portfolioid) \/ includes(lower, S_portfolio_id)
        \/ lower = S_id \/ lower = S_portfolio \/ lower = S_reference
     THEN "candidateId" ELSE "field"

\* the schema importFiles builds from the headers; the data type of a column is
\* decided by detectType on up to 100 sample rows and is an input of the model
FieldsOf(file) ==
  [i \in 1..Len(file.headers) |->
     [id |-> file.headers[i].h, name |-> file.headers[i].h,
      dataType |-> file.headers[i].dataType, roleGuess |-> guessRole(file.headers[i].h)]]

SourceMeta(sourceId, file) ==
  [sourceId |-> sourceId, name |-> BaseName(file.name), originalFileName |-> file.name]

-----------------------------------------------------------------------------
(* Bounds and the inputs of the model                                      *)

MaxClock == 2         \* the instants of a session at which files are read

S_Principal == <<"P","r","i","n","c","i","p","a","l">>
S_Balance == <<"B","a","l","a","n","c","e">>
S_Branch == <<"B","r","a","n","c","h">>
S_balance == <<"b","a","l","a","n","c","e">>
S_status == <<"s","t","a","t","u","s">>
S_open == <<"o","p","e","n">>

Hdr(h, dataType) == [h |-> h, dataType |-> dataType]

\* a row of a parsed file: the headers mapped to the cells
Row3(a, b, c) == (S_Portfolio :> a) @@ (b[1] :> b[2]) @@ (S_Branch :> c)
Row2(a, b) == (S_Portfolio :> a) @@ (b[1] :> b[2])

LoanHeaders == <<Hdr(S_Portfolio, "string"), Hdr(S_Principal, "currency"), Hdr(S_Branch, "integer")>>
CheckingHeaders == <<Hdr(S_Portfolio, "string"), Hdr(S_Balance, "currency"), Hdr(S_Branch, "integer")>>
CheckingHeadersNoBranch == <<Hdr(S_Portfolio, "string"), Hdr(S_Balance, "currency")>>

P1 == StrV(<<"P","1">>)
P2 == StrV(<<"P","2">>)

LoanRows == <<
  Row3(P1, <<S_Principal, StrV(<<"$","5",",","0","0","0">>)>>, StrV(<<"4">>)),
  Row3(P1, <<S_Principal, StrV(<<"1","0","0">>)>>, StrV(<<"4">>)),
  Row3(P2, <<S_Principal, StrV(<<"N","/","A">>)>>, StrV(<<"7">>)) >>

CheckingRows == <<
  Row3(P1, <<S_Balance, StrV(<<"2","5","0">>)>>, StrV(<<"4">>)),
  Row3(P2, <<S_Balance, StrV(<<>>)>>, StrV(<<"7">>)),
  Row3(P2, <<S_Balance, NumV(75)>>, NumV(4)) >>

CheckingRowsNoBranch == <<
  Row2(P1, <<S_Balance, StrV(<<"2","5","0">>)>>),
  Row2(P2, <<S_Balance, StrV(<<"-">>)>>),
  Row2(StrV(<<>>), <<S_Balance, NumV(75)>>) >>

File(name, headers, rws) == [name |-> name, headers |-> headers, rows |-> rws]

\* the files a session imports
Files == {
  File(<<"l","o","a","n","s",".","c","s","v">>, LoanHeaders, SubSeq(LoanRows, 1, 2)),
  File(<<"l","o","a","n","s",".","c","s","v">>, LoanHeaders, SubSeq(LoanRows, 2, 3)),
  File(<<"c","h","e","c","k","i","n","g",".","c","s","v">>, CheckingHeaders, SubSeq(CheckingRows, 1, 2)),
  File(<<"c","h","e","c","k","i","n","g",".","c","s","v">>, CheckingHeaders, SubSeq(CheckingRows, 3, 3)),
  File(<<"c","h","e","c","k","i","n","g",".","c","s","v">>, CheckingHeadersNoBranch, CheckingRowsNoBranch) }

\* the file lists handed to importFiles in a session of imports: one file, or
\* two files of the same name selected together
FileLists == {
  << File(<<"l","o","a","n","s",".","c","s","v">>, LoanHeaders, SubSeq(LoanRows, 1, 2)) >>,
  << File(<<"l","o","a","n","s",".","c","s","v">>, <<Hdr(S_Portfolio, "string"), Hdr(<<"A","m","o","u","n","t">>, "currency")>>,
          << Row2(P1, <<<<"A","m","o","u","n","t">>, StrV(<<"4","0">>)>>) >>) >>,
  << File(<<"c","h","e","c","k","i","n","g",".","c","s","v">>, CheckingHeaders, SubSeq(CheckingRows, 1, 2)) >>,
  << File(<<"l","o","a","n","s",".","c","s","v">>, LoanHeaders, SubSeq(LoanRows, 1, 2)),
     File(<<"l","o","a","n","s",".","c","s","v">>, LoanHeaders, SubSeq(LoanRows, 2, 3)) >> }

\* functionCall: null
NoFunctionCall == [library |-> "", functionName |-> <<>>, description |-> <<>>]

Plan(targetEntities, conditions, logicalOp) ==
  [intent |-> "show", targetEntities |-> targetEntities, conditions |-> conditions,
   logicalOp |-> logicalOp, statisticalOp |-> <<>>, statisticalField |-> <<>>,
   functionCall |-> NoFunctionCall, uniqueId |-> UNDEF, hasColumns |-> FALSE, columns |-> <<>>]

C_branch4 == Cond(S_branch, "=", 4, 0, 0, "number")
C_over100 == Cond(S_balance, ">", 100, 0, 0, "number")
C_under1000 == Cond(S_balance, "<", 1000, 0, 0, "number")
C_between == Cond(S_balance, "between", 0, 0, 300, "number")
C_status == Cond(S_status, "=", 0, 0, 0, "string")
C_untyped == Cond(S_status, "=", 0, 0, 0, "")
C_opened == [Cond(S_open, "after", 0, 0, 0, "date") EXCEPT !.absoluteDate = <<"2","0","2","4","-","0","1","-","0","1">>]

\* the plans handed to executeQueryPlan
Plans == {
  Plan(<<S_loans>>, <<C_branch4>>, "AND"),
  Plan(<<S_loans>>, <<C_under1000>>, "AND"),
  Plan(<<S_loans>>, <<C_branch4, C_status>>, "AND"),
  Plan(<<S_loans>>, <<C_untyped>>, "AND"),
  Plan(<<S_loans>>, <<C_opened>>, "AND"),
  Plan(<<S_checking>>, <<C_between, C_branch4>>, "OR"),
  Plan(<<S_loans, S_checking>>, <<>>, "AND"),
  Plan(<<S_loans, S_checking>>, <<C_branch4>>, "AND"),
  Plan(<<S_loans, S_checking>>, <<C_branch4, C_over100>>, "OR"),
  [Plan(<<S_checking>>, <<C_over100>>, "") EXCEPT !.uniqueId = S_Portfolio,
                                                    !.hasColumns = TRUE,
                                                    !.columns = <<S_Portfolio, S_Branch, S_Balance>>] }

-----------------------------------------------------------------------------
(* The session: imports, deletions and queries                             *)

\* no call of executeQueryPlan is in progress
NoResult == [EmptyResult(Plan(<<>>, <<>>, "")) EXCEPT !.kind = "none"]

\* the Run handler at rest, before the first submission
Idle ==
  [pc |-> "idle", plan |-> Plan(<<>>, <<>>, ""), validation |-> [isValid |-> FALSE, confidence |-> 0],
   proceed |-> FALSE, executed |-> 0, functionRows |-> 0, statistic |-> "none"]

LibraryFunction(functionName, description, params) ==
  [library |-> "financial", functionName |-> functionName, description |-> description,
   entities |-> <<<<"l","o","a","n","s">>>>, params |-> params]

\* window.FunctionLibrary: the functions of the financial library in the
\* order of their declaration, each with the parameter names of its
\* implementation
FunctionLibrary == <<
  LibraryFunction(<<"u","n","t","i","l","M","a","t","u","r","i","t","y">>,
    <<"C","a","l","c","u","l","a","t","e","s"," ","m","o","n","t","h","s"," ","u","n","t","i","l"," ","m","a","t","u","r","i","t","y"," ","d","a","t","e"," ","f","r","o","m"," ","a"," ","g","i","v","e","n"," ","m","a","t","u","r","i","t","y"," ","d","a","t","e"," ","s","t","r","i","n","g">>,
    <<<<"m","a","t","u","r","i","t","y">>>>),
  LibraryFunction(<<"a","v","e","r","a","g","e","P","r","i","n","c","i","p","a","l">>,
    <<"C","a","l","c","u","l","a","t","e","s"," ","t","h","e"," ","a","v","e","r","a","g","e"," ","b","a","l","a","n","c","e"," ","o","f"," ","a"," ","l","o","a","n"," ","o","v","e","r"," ","i","t","s"," ","t","e","r","m"," ","u","s","i","n","g"," ","m","a","t","u","r","i","t","y"," ","d","a","t","e">>,
    <<<<"p","r","i","n","c","i","p","a","l">>, <<"p","a","y","m","e","n","t">>, <<"r","a","t","e">>,
      <<"m","a","t","u","r","i","t","y">>, <<"t","e","r","m">>, <<"s","o","u","r","c","e","I","n","d","e","x">>>>),
  LibraryFunction(<<"l","o","a","n","P","r","o","f","i","t">>,
    <<"C","a","l","c","u","l","a","t","e","s"," ","p","r","o","f","i","t"," ","(","i","n","t","e","r","e","s","t"," ","e","a","r","n","e","d",")"," ","o","n"," ","a"," ","l","o","a","n"," ","g","i","v","e","n"," ","p","r","i","n","c","i","p","a","l",","," ","r","a","t","e",","," ","a","n","d"," ","o","p","t","i","o","n","a","l"," ","t","e","r","m"," ","i","n"," ","m","o","n","t","h","s">>,
    <<<<"p","r","i","n","c","i","p","a","l">>, <<"r","a","t","e">>, <<"t","e","r","m","M","o","n","t","h","s">>>>) >>

stopWords == {
  <<"t","h","e">>, <<"a","n","d">>, <<"o","r">>, <<"b","u","t">>, <<"i","n">>, <<"o","n">>, <<"a","t">>, <<"t","o">>, <<"f","o","r">>, <<"o","f">>, <<"w","i","t","h">>, <<"b","y">>,
  <<"a","n">>, <<"a">>, <<"i","s">>, <<"a","r","e">>, <<"w","a","s">>, <<"w","e","r","e">>, <<"b","e">>, <<"b","e","e","n">>, <<"b","e","i","n","g">>, <<"h","a","v","e">>, <<"h","a","s">>,
  <<"h","a","d">>, <<"d","o">>, <<"d","o","e","s">>, <<"d","i","d">>, <<"w","i","l","l">>, <<"w","o","u","l","d">>, <<"c","o","u","l","d">>, <<"s","h","o","u","l","d">>, <<"m","a","y">>, <<"m","i","g","h","t">>,
  <<"m","u","s","t">>, <<"c","a","n">>, <<"t","h","i","s">>, <<"t","h","a","t">>, <<"t","h","e","s","e">>, <<"t","h","o","s","e">>, <<"i">>, <<"y","o","u">>, <<"h","e">>, <<"s","h","e">>, <<"i","t">>,
  <<"w","e">>, <<"t","h","e","y">>, <<"m","e">>, <<"h","i","m">>, <<"h","e","r">>, <<"u","s">>, <<"t","h","e","m">>, <<"m","y">>, <<"y","o","u","r">>, <<"h","i","s">>, <<"i","t","s">>,
  <<"o","u","r">>, <<"t","h","e","i","r">>, <<"w","h","a","t">>, <<"w","h","i","c","h">>, <<"w","h","o">>, <<"w","h","e","n">>, <<"w","h","e","r","e">>, <<"w","h","y">>, <<"h","o","w">> }

\* the stop words of getAllFunctionKeywords
keywordStopWords ==
  stopWords \cup { <<"c","a","l","c","u","l","a","t","e">>, <<"c","o","m","p","u","t","e">>, <<"f","i","n","d">>, <<"g","e","t">>, <<"d","e","t","e","r","m","i","n","e">>, <<"m","e","a","s","u","r","e">>,
                   <<"e","s","t","i","m","a","t","e">> }

IsLowerAlnum(c) == IsLowerCh(c) \/ IsDigit(c)
NotLowerAlnum(c) == ~IsLowerAlnum(c)
\* [^\w\s]
IsPunctuation(c) == ~(IsAlnum(c) \/ c = "_" \/ IsSpace(c))

\* text.split(/\s+/).map(t => t.replace(/[^a-z0-9]/g, '')).filter(t =>
\*   t.length >= 3 && !stopWords.has(t)) of a lowercased text
KeywordTokens(lower) ==
  LET stripped == [i \in 1..Len(words(lower)) |-> ReplaceChars(words(lower)[i], NotLowerAlnum, <<>>)]
  IN SelectSeq(stripped, LAMBDA t : Len(t) >= 3 /\ ~(t \in stopWords))

\* the singular or plural variation of a token, none for a short token
Variation(t) ==
  IF endsWith(t, <<"s">>) /\ Len(t) > 3 THEN {SubSeq(t, 1, Len(t) - 1)}
  ELSE IF Len(t) > 3 THEN {t \o <<"s">>}
  ELSE {}

Synonyms(kw) ==
  IF kw = <<"p","r","o","f","i","t">> THEN {<<"e","a","r","n","i","n","g","s">>}
  ELSE IF kw = <<"e","a","r","n","i","n","g","s">> THEN {<<"p","r","o","f","i","t">>}
  ELSE IF kw = <<"i","n","t","e","r","e","s","t">> THEN {<<"r","a","t","e">>}
  ELSE IF kw = <<"r","a","t","e">> THEN {<<"i","n","t","e","r","e","s","t">>}
  ELSE IF kw = <<"b","a","l","a","n","c","e">> THEN {<<"p","r","i","n","c","i","p","a","l">>}
  ELSE IF kw = <<"p","r","i","n","c","i","p","a","l">> THEN {<<"b","a","l","a","n","c","e">>}
  ELSE {}

\* normalizeKeywordsFromDescription(desc), as a set
normalizeKeywordsFromDescription(desc) ==
  LET keywords == SeqToSet(KeywordTokens(toLowerCase(desc)))
  IN keywords \cup UNION { Variation(kw) \cup Synonyms(kw) : kw \in keywords }

\* cachedKeywordEntries = null
NoKeywordEntries == [null |-> TRUE, entries |-> <<>>]

\* cachedKeywordEntries is an array of entries
KeywordEntries(entries) == [null |-> FALSE, entries |-> entries]

\* no library function was called yet
NoCall == [fn |-> "none", args |-> <<>>, returned |-> [k |-> "none", num |-> 0, den |-> 1]]

\* the value of a call that has not returned yet
Pending == [k |-> "pending", num |-> 0, den |-> 1]

\* a library function was called with the arguments and has not returned
Called(fn, args) == [fn |-> fn, args |-> args, returned |-> Pending]

\* the page after loading: empty stores, no query, nothing parsed, the
\* financial library registered and no keyword index yet
InitPage ==
  /\ sources = <<>>
  /\ schemas = EmptyMap
  /\ rows = EmptyMap
  /\ clock = 0
  /\ sourcesMeta = <<>>
  /\ result = NoResult
  /\ run = Idle
  /\ translators = EmptyMap
  /\ sessionLearnings = EmptyMap
  /\ sessionQueryHistory = <<>>
  /\ parsed = [calls |-> 0, text |-> <<>>, plan |-> Plan(<<>>, <<>>, "")]
  /\ registeredLibraries = FunctionLibrary
  /\ cachedKeywordEntries = NoKeywordEntries

Init ==
  /\ InitPage
  /\ call = NoCall

\* window.DataManager.deleteSource(sourceId): the three stores after the call
deleteSource_KeepRows(store, sourceId) ==
  [sources |-> SelectSeq(store.sources, LAMBDA s : s.sourceId # sourceId),
   schemas |-> Remove(store.schemas, sourceId),
   rows |-> store.rows]

deleteSource(store, sourceId) ==
  [sources |-> SelectSeq(store.sources, LAMBDA s : s.sourceId # sourceId),
   schemas |-> Remove(store.schemas, sourceId),
   rows |-> Remove(store.rows, sourceId)]

\* the click handlers run one after the other: none starts while a query runs
Quiescent == result = NoResult /\ run.pc = "idle"

\* the body of the loop of importFiles for one file, when Date.now() returns
\* now: the stores and the registry after it
importFile(store, file, now) ==
  The({ [sources |-> putSource(store.sources, SourceMeta(sourceId, file)),
         schemas |-> Put(store.schemas, sourceId, fields),
         rows |-> addRows(store.rows, sourceId, file.rows),
         translators |-> RegisterFromImport(store.translators, fields, file.rows)]
        : sourceId \in {SourceIdFor(file.name, now)}, fields \in {FieldsOf(file)} })

\* the loop of importFiles over the files, the i-th read at instants[i]
RECURSIVE importFiles(_, _, _)
importFiles(store, fileList, instants) ==
  IF fileList = <<>> THEN store
  ELSE importFiles(importFile(store, Head(fileList), Head(instants)),
                   Tail(fileList), Tail(instants))

\* the values Date.now() can return for the n files of a call started at
\* instant t: the clock has a resolution of one millisecond, so that two files
\* of one call are read at the same instant or at successive ones
Instants(n, t) ==
  { s \in [1..n -> t..(t + n - 1)] :
      s[1] = t /\ \A i \in 2..n : s[i] \in {s[i - 1], s[i - 1] + 1} }

\* importFiles for the files selected, then the refresh of the source list by
\* the app; the next call happens at a later instant
ImportFiles(fileList, instants) ==
  /\ Quiescent
  /\ instants[Len(instants)] < MaxClock
  /\ \E after \in {importFiles([sources |-> sources, schemas |-> schemas, rows |-> rows,
                                translators |-> translators], fileList, instants)} :
        /\ translators' = after.translators
        /\ sources' = after.sources
        /\ schemas' = after.schemas
        /\ rows' = after.rows
        /\ sourcesMeta' = after.sources
  /\ clock' = instants[Len(instants)] + 1
  /\ UNCHANGED <<libraryVars, result, run, nlpVars>>

\* the delete button: the source leaves the cached list and the three stores
DeleteSource(sourceId) ==
  /\ Quiescent
  /\ \E i \in 1..Len(sources) : sources[i].sourceId = sourceId
  /\ sourcesMeta' = SelectSeq(sourcesMeta, LAMBDA s : s.sourceId # sourceId)
  /\ LET after == deleteSource([sources |-> sources, schemas |-> schemas, rows |-> rows], sourceId)
     IN /\ sources' = after.sources
        /\ schemas' = after.schemas
        /\ rows' = after.rows
  /\ UNCHANGED <<libraryVars, clock, result, run, translators, nlpVars>>

\* the conditions of a single-source plan as the caller may have mapped them
Premapped(queryPlan) ==
  LET source == pickSourceForEntity(queryPlan.targetEntities[1], sourcesMeta)
  IN IF Len(queryPlan.targetEntities) = 1 /\ source # NoSource
     THEN [queryPlan EXCEPT !.conditions =
             mapConceptsToFields(schemas, MetaTypes(translators), source.sourceId, @)]
     ELSE queryPlan

\* a call of executeQueryPlan(plan, sourcesMeta)
ExecuteQueryPlan(queryPlan) ==
  /\ Quiescent
  /\ result' = executeQueryPlan(schemas, rows, MetaTypes(translators), queryPlan, sourcesMeta)
  /\ UNCHANGED <<libraryVars, storeVars, clock, sourcesMeta, run, translators, nlpVars>>

\* the caller takes the rows and the call is over
ReturnResult ==
  /\ ~Quiescent
  /\ result' = NoResult
  /\ UNCHANGED <<libraryVars, storeVars, clock, sourcesMeta, run, translators, nlpVars>>

Next ==
  \/ ReturnResult
  \/ \E file \in Files : ImportFiles(<<file>>, <<clock>>)
  \/ \E i \in 1..Len(sources) : DeleteSource(sources[i].sourceId)
  \/ \E queryPlan \in Plans : ExecuteQueryPlan(queryPlan)
  \/ \E queryPlan \in Plans : ExecuteQueryPlan(Premapped(queryPlan))

Spec == Init /\ [][Next]_vars

-----------------------------------------------------------------------------
(* Properties of query execution and of the stores                         *)

\* some condition of the list has no field
Unmapped(conditions) == \E i \in 1..Len(conditions) : ~Truthy(conditions[i].field)

\* the rows the queried sources handed to the aggregation, in order
HandedRows == Flatten([i \in 1..Len(result.sourceResults) |-> result.sourceResults[i].rows])

\* the rows of one source held by a group
RowsOf(g, sourceId) == SelectSeq(g._subRows, LAMBDA t : t._sourceId = sourceId)

\* the sources that contributed a row to a group
Contributors(g) == { g._subRows[i]._sourceId : i \in 1..Len(g._subRows) }

\* C1: in a multi-source execution, a source for which the concept mapper left
\* a condition without field hands no row to the aggregation and no group
\* holds a row of it, under AND and under OR, whatever the other sources do.
UnmappedSourceContributesNothing ==
  result.kind = "multi" =>
    \A i \in 1..Len(result.sourceResults) :
      LET sr == result.sourceResults[i]
      IN Unmapped(sr.mapped) =>
           /\ sr.rows = <<>>
           /\ \A gi \in 1..Len(result.groups) :
                RowsOf(result.groups[gi], sr.source.sourceId) = <<>>

\* a source with rows and an unmapped condition is queried under OR, another
\* condition of the plan is mapped and accepts one of its rows
UnmappedSourceWitness ==
  /\ result.kind = "multi"
  /\ result.plan.logicalOp = "OR"
  /\ \E i \in 1..Len(result.sourceResults) :
       LET sr == result.sourceResults[i]
           allRows == getAllRows(rows, sr.source.sourceId)
       IN /\ Unmapped(sr.mapped)
          /\ \E j \in 1..Len(sr.mapped) : Truthy(sr.mapped[j].field)
          /\ \E k \in 1..Len(allRows) : Keep("OR", sr.mapped, allRows[k])
  /\ result.groups # <<>>

\* the numeric value the aggregation reads in a cell: not a number counts 0
NumericOrZero(v) == LET p == StripNumber(OrEmpty(v)) IN IF p.nan THEN 0 ELSE p.v

\* the handed rows that carry the unique-id value of a group
MemberRows(g) ==
  SelectSeq(HandedRows, LAMBDA t :
    Cell(t.row, result.uniqueId) = Cell(g._subRows[1].row, result.uniqueId))

\* C2: every group holds exactly the handed rows with its unique-id value,
\* its value for each valuation field is the sum of the numeric values of
\* that field over these rows, and _isAggregated says there are two or more.
GroupSumsMemberRows ==
  result.kind = "multi" =>
    \A gi \in 1..Len(result.groups) :
      LET g == result.groups[gi]
          members == MemberRows(g)
      IN /\ g._subRows # <<>>
         /\ g._subRows = members
         /\ g._isAggregated = (Len(members) > 1)
         /\ \A fi \in 1..Len(result.valuationFields) :
              LET f == result.valuationFields[fi]
              IN g.vals[f] = NumV(SumSeq([k \in 1..Len(members) |->
                                            NumericOrZero(Cell(members[k].row, f))]))

\* a group sums two non-zero amounts of one valuation field, and a group
\* holds a row whose cell in a valuation field is not a number
GroupSumsWitness ==
  /\ result.kind = "multi"
  /\ \E gi \in 1..Len(result.groups), fi \in 1..Len(result.valuationFields) :
       LET g == result.groups[gi]
           f == result.valuationFields[fi]
       IN \E a, b \in 1..Len(g._subRows) :
            /\ a # b
            /\ NumericOrZero(Cell(g._subRows[a].row, f)) # 0
            /\ NumericOrZero(Cell(g._subRows[b].row, f)) # 0
  /\ \E gi \in 1..Len(result.groups), fi \in 1..Len(result.valuationFields) :
       LET g == result.groups[gi]
           f == result.valuationFields[fi]
       IN \E a \in 1..Len(g._subRows) : StripNumber(OrEmpty(Cell(g._subRows[a].row, f))).nan

\* C4: the single-source path under AND returns no row when a condition of
\* the plan has no field, whatever the type and operator of that condition.
UnmappedConditionRejectsUnderAnd ==
  (/\ result.kind = "single"
   /\ Logic(result.plan) = "AND"
   /\ Unmapped(result.plan.conditions)) => result.rows = <<>>

\* the two sources of a query contributed to the groups of the result
TwoSourcesQueried == result.kind = "multi" /\ Len(result.sourceResults) = 2

\* C5 as stated: over two sources, a group is flagged aggregated exactly when
\* both sources contributed a row to it.
AggregatedIffBothSources ==
  TwoSourcesQueried =>
    \A gi \in 1..Len(result.groups) :
      result.groups[gi]._isAggregated = (Cardinality(Contributors(result.groups[gi])) = 2)

\* C5 as amended: a group to which each source contributed at most one row is
\* flagged aggregated exactly when both sources contributed; a group holding
\* two or more rows of one source is flagged aggregated.
AggregatedIffBothSourcesOfSingleRows ==
  TwoSourcesQueried =>
    \A gi \in 1..Len(result.groups) :
      LET g == result.groups[gi]
      IN IF \A sid \in Contributors(g) : Len(RowsOf(g, sid)) <= 1
         THEN g._isAggregated = (Cardinality(Contributors(g)) = 2)
         ELSE g._isAggregated

\* a result over two sources with a group fed by one row of each and a
\* group of one row
AggregatedWitness ==
  /\ TwoSourcesQueried
  /\ \E gi \in 1..Len(result.groups) :
       LET g == result.groups[gi]
       IN Cardinality(Contributors(g)) = 2 /\ \A sid \in Contributors(g) : Len(RowsOf(g, sid)) = 1
  /\ \E gi \in 1..Len(result.groups) : Len(result.groups[gi]._subRows) = 1

\* a cell that is missing, empty or a text without any digit
NotANumber(v) == \/ v.k \in {"null", "undef"}
                 \/ (v.k = "str" /\ \A i \in 1..Len(v.s) : ~IsDigit(v.s[i]))

\* C6: a row accepted under AND carries a number in the field of every
\* numeric condition (=, >, <, >=, <=, between) of the plan.
NumericPredicateRejectsNonNumbers ==
  (result.kind = "single" /\ Logic(result.plan) = "AND") =>
    \A ci \in 1..Len(result.plan.conditions) :
      LET cond == result.plan.conditions[ci]
      IN (/\ cond.valueType = "number"
          /\ Truthy(cond.field)
          /\ cond.op \in {"=", ">", "<", ">=", "<=", "between"})
         => \A ri \in 1..Len(result.rows) : ~NotANumber(Cell(result.rows[ri], cond.field))

\* the source ids of the metadata store
SourceIds == { sources[i].sourceId : i \in 1..Len(sources) }

\* every id the three stores hold
StoredIds == SourceIds \cup DOMAIN schemas \cup DOMAIN rows

\* a step that removes the metadata, the schema or the rows of a source
\* leaves nothing of that source in any of the three stores
RemovedTogether ==
  \A sid \in StoredIds :
    (\/ (sid \in SourceIds /\ ~(sid \in SourceIds'))
     \/ (sid \in DOMAIN schemas /\ ~(sid \in DOMAIN schemas'))
     \/ (sid \in DOMAIN rows /\ ~(sid \in DOMAIN rows')))
    => ~(sid \in StoredIds')

\* C10: deleteSource removes metadata, schema and rows in one step: every
\* state holds all three or none of them for a source id, and the step that
\* removes one of them leaves nothing stored under that id.
DeleteRemovesAllTogether ==
  /\ [](SourceIds = DOMAIN schemas /\ SourceIds = DOMAIN rows)
  /\ [][RemovedTogether]_vars

\* a source was deleted while another one stays stored, and a query ran
DeleteWitness ==
  /\ Len(sources) = 1
  /\ clock = 2
  /\ result.kind = "single"

-----------------------------------------------------------------------------
(* Regular expressions of the prompt parser (js/nlpEngine.js), matched on   *)
(* the characters of the text                                               *)

\* \w
IsWordChar(c) == IsAlnum(c) \/ c = "_"

WordCharAt(s, i) == i >= 1 /\ i <= Len(s) /\ IsWordChar(s[i])

\* \b in front of position i
BoundaryAt(s, i) == WordCharAt(s, i - 1) # WordCharAt(s, i)

\* the literal w at position i
At(s, i, w) == i >= 1 /\ i + Len(w) - 1 <= Len(s) /\ SubSeq(s, i, i + Len(w) - 1) = w

MinOf(S) == CHOOSE x \in S : \A y \in S : x <= y

\* the position after the longest run of characters of a class that starts at i
RunEnd(s, i, InClass(_)) ==
  LET stops == { j \in i..Len(s) : ~InClass(s[j]) }
  IN IF stops = {} THEN (IF i > Len(s) THEN i ELSE Len(s) + 1) ELSE MinOf(stops)

\* [\d,\.]
IsNumChar(c) == IsDigit(c) \/ c = "," \/ c = "."

NoMatch == [ok |-> FALSE, index |-> 0, end |-> 0, g1 |-> <<>>, g2 |-> <<>>]

\* \$?([\d,\.]+) at position i
NumberToken(s, i) ==
  LET j == IF i <= Len(s) /\ s[i] = "$" THEN i + 1 ELSE i
      e == RunEnd(s, j, IsNumChar)
  IN [ok |-> e > j, index |-> i, end |-> e, g1 |-> SubSeq(s, j, e - 1), g2 |-> <<>>]

\* (\d+) at position i
DigitsToken(s, i) ==
  LET e == RunEnd(s, i, IsDigit)
  IN [ok |-> e > i, index |-> i, end |-> e, g1 |-> SubSeq(s, i, e - 1), g2 |-> <<>>]

\* between\s+\$?([\d,\.]+)\s+and\s+\$?([\d,\.]+) at position i
BetweenAt(s, i) ==
  LET a == i + 7
      sp1 == RunEnd(s, a, IsSpace)
      n1 == NumberToken(s, sp1)
      sp2 == RunEnd(s, n1.end, IsSpace)
      a2 == sp2 + 3
      sp3 == RunEnd(s, a2, IsSpace)
      n2 == NumberToken(s, sp3)
  IN IF /\ At(s, i, <<"b","e","t","w","e","e","n">>) /\ sp1 > a /\ n1.ok
        /\ sp2 > n1.end /\ At(s, sp2, <<"a","n","d">>) /\ sp3 > a2 /\ n2.ok
     THEN [ok |-> TRUE, index |-> i, end |-> n2.end, g1 |-> n1.g1, g2 |-> n2.g1]
     ELSE NoMatch

\* the leftmost match at or after position from of a pattern given by its
\* match at a position
FirstMatch(s, from, MatchAt(_, _)) ==
  LET starts == { i \in from..Len(s) : MatchAt(s, i).ok }
  IN IF starts = {} THEN NoMatch ELSE MatchAt(s, MinOf(starts))

\* \bbetween\s+\$?([\d,\.]+)\s+and\s+\$?([\d,\.]+)
WordBetweenAt(s, i) == IF BoundaryAt(s, i) THEN BetweenAt(s, i) ELSE NoMatch

\* all matches of the global regular expression, left to right
RECURSIVE BetweenMatches(_, _)
BetweenMatches(s, from) ==
  LET m == FirstMatch(s, from, WordBetweenAt)
  IN IF ~m.ok THEN <<>> ELSE <<m>> \o BetweenMatches(s, m.end)

\* text.replace(/\bbetween ... /gi, ''): the text without the matches
RECURSIVE CutMatches(_, _, _)
CutMatches(s, ms, from) ==
  IF ms = <<>> THEN SubSeq(s, from, Len(s))
  ELSE SubSeq(s, from, Head(ms).index - 1) \o CutMatches(s, Tail(ms), Head(ms).end)

RemoveBetween(text) == trim(CutMatches(text, BetweenMatches(toLowerCase(text), 1), 1))

\* the forEach over the between conditions: one removal per condition
RECURSIVE RemainingText(_, _)
RemainingText(text, n) == IF n = 0 THEN text ELSE RemainingText(RemoveBetween(text), n - 1)

\* \b(?:and|or)\b at position i: the length of the connective, 0 when none
ConnectiveAt(s, i) ==
  IF BoundaryAt(s, i) /\ At(s, i, <<"a","n","d">>) /\ BoundaryAt(s, i + 3) THEN 3
  ELSE IF BoundaryAt(s, i) /\ At(s, i, <<"o","r">>) /\ BoundaryAt(s, i + 2) THEN 2
  ELSE 0

\* s.split(/\b(?:and|or)\b/)
RECURSIVE SplitConnectives(_, _, _)
SplitConnectives(s, i, from) ==
  IF i > Len(s) THEN <<SubSeq(s, from, Len(s))>>
  ELSE IF ConnectiveAt(s, i) > 0
       THEN <<SubSeq(s, from, i - 1)>> \o
            SplitConnectives(s, i + ConnectiveAt(s, i), i + ConnectiveAt(s, i))
       ELSE SplitConnectives(s, i + 1, from)

\* the fragments of the remaining text: split, trimmed, the empty ones dropped
Fragments(remainingText) ==
  LET parts == SplitConnectives(toLowerCase(remainingText), 1, 1)
      trimmed == [i \in 1..Len(parts) |-> trim(parts[i])]
  IN SelectSeq(trimmed, LAMBDA p : p # <<>>)

-----------------------------------------------------------------------------
(* Concept resolution of the prompt parser (js/nlpEngine.js)                *)

\* new RegExp("\\b(" + w + ")\\b").test(s) for a word w
HasWord(s, w) == \E i \in 1..Len(s) : At(s, i, w) /\ BoundaryAt(s, i) /\ BoundaryAt(s, i + Len(w))

\* new RegExp("\\b(a|b|c)\\b", "i").test(s)
TestWords(s, alts) == \E k \in 1..Len(alts) : HasWord(s, alts[k])

Pattern(alts, concept) == [alts |-> alts, concept |-> concept]

\* BANKING_KNOWLEDGE_BASE.domainPatterns, in the order of Object.entries
domainPatterns == <<
  [entity |-> <<"l","o","a","n">>, patterns |-> <<
     Pattern(<<<<"o","v","e","r">>, <<"a","b","o","v","e">>, <<"g","r","e","a","t","e","r">>>>, <<"p","r","i","n","c","i","p","a","l">>),
     Pattern(<<<<"u","n","d","e","r">>, <<"b","e","l","o","w">>, <<"l","e","s","s">>>>, <<"p","r","i","n","c","i","p","a","l">>),
     Pattern(<<<<"i","n">>, <<"a","t">>>>, <<"b","r","a","n","c","h">>),
     Pattern(<<<<"w","i","t","h">>>>, <<"r","a","t","e">>),
     Pattern(<<<<"f","r","o","m">>>>, <<"b","r","a","n","c","h">>) >>],
  [entity |-> <<"a","c","c","o","u","n","t","|","c","h","e","c","k","i","n","g","|","s","a","v","i","n","g","s">>, patterns |-> <<
     Pattern(<<<<"o","v","e","r">>, <<"a","b","o","v","e">>, <<"g","r","e","a","t","e","r">>>>, <<"b","a","l","a","n","c","e">>),
     Pattern(<<<<"u","n","d","e","r">>, <<"b","e","l","o","w">>, <<"l","e","s","s">>>>, <<"b","a","l","a","n","c","e">>),
     Pattern(<<<<"i","n">>, <<"a","t">>>>, <<"b","r","a","n","c","h">>),
     Pattern(<<<<"w","i","t","h">>>>, <<"r","a","t","e">>),
     Pattern(<<<<"t","y","p","e">>>>, <<"c","l","a","s","s">>) >>],
  [entity |-> <<"c","u","s","t","o","m","e","r">>, patterns |-> <<
     Pattern(<<<<"w","i","t","h">>>>, <<"i","d">>),
     Pattern(<<<<"i","n">>>>, <<"b","r","a","n","c","h">>),
     Pattern(<<<<"f","r","o","m">>>>, <<"b","r","a","n","c","h">>) >>],
  [entity |-> <<"b","r","a","n","c","h">>, patterns |-> <<
     Pattern(<<<<"n","u","m","b","e","r">>>>, <<"b","r","a","n","c","h">>),
     Pattern(<<<<"w","i","t","h">>>>, <<"l","o","c","a","t","i","o","n">>) >>] >>

\* BANKING_KNOWLEDGE_BASE.linguisticPatterns.nounAdjectives
nounAdjectives == <<<<"n","u","m","b","e","r">>, <<"i","d">>, <<"c","o","d","e">>, <<"r","a","t","e">>, <<"b","a","l","a","n","c","e">>, <<"a","m","o","u","n","t">>, <<"p","r","i","n","c","i","p","a","l">>>>

\* BANKING_KNOWLEDGE_BASE.linguisticPatterns.prepositionHints
prepositionHints == <<
  Pattern(<<<<"o","v","e","r">>, <<"a","b","o","v","e">>, <<"g","r","e","a","t","e","r">>, <<"m","o","r","e">>>>, "numeric_increasing"),
  Pattern(<<<<"u","n","d","e","r">>, <<"b","e","l","o","w">>, <<"l","e","s","s">>, <<"f","e","w","e","r">>>>, "numeric_decreasing"),
  Pattern(<<<<"i","n">>, <<"a","t">>, <<"f","r","o","m">>>>, "location_reference"),
  Pattern(<<<<"w","i","t","h">>, <<"h","a","v","i","n","g">>>>, "attribute_reference"),
  Pattern(<<<<"n","u","m","b","e","r">>, <<"i","d">>, <<"c","o","d","e">>>>, "identifier_reference") >>

\* a resolution {concept, confidence, method}; the confidence in 1/10000
Resolution(concept, confidence, method) ==
  [concept |-> concept, confidence |-> confidence, method |-> method]

\* { concept: null, confidence: 0 }
NoResolution == Resolution(UNDEF, 0, "")

\* resolveWithDomainPatterns(fragment, context)
resolveWithDomainPatterns(fragment) ==
  LET hit(e, p) == /\ (\/ includes(fragment, domainPatterns[e].entity)
                       \/ includes(fragment, domainPatterns[e].entity \o <<"s">>))
                   /\ TestWords(fragment, domainPatterns[e].patterns[p].alts)
      hits == { ep \in { <<e, p>> : e \in 1..Len(domainPatterns), p \in 1..5 } :
                  ep[2] <= Len(domainPatterns[ep[1]].patterns) /\ hit(ep[1], ep[2]) }
      first == CHOOSE ep \in hits : \A o \in hits :
                 ep[1] < o[1] \/ (ep[1] = o[1] /\ ep[2] <= o[2])
  IN IF hits = {} THEN NoResolution
     ELSE Resolution(domainPatterns[first[1]].patterns[first[2]].concept, 8500, "domain_pattern")

\* mapHintTypeToConcept(hintType, fragment)
mapHintTypeToConcept(hintType, fragment) ==
  CASE hintType \in {"numeric_increasing", "numeric_decreasing"} ->
         (IF includes(fragment, <<"l","o","a","n">>) THEN <<"p","r","i","n","c","i","p","a","l">> ELSE <<"b","a","l","a","n","c","e">>)
    [] hintType = "location_reference" -> <<"b","r","a","n","c","h">>
    [] hintType = "attribute_reference" ->
         (IF includes(fragment, <<"r","a","t","e">>) THEN <<"r","a","t","e">> ELSE <<"b","a","l","a","n","c","e">>)
    [] hintType = "identifier_reference" -> <<"i","d">>
    [] OTHER -> UNDEF

\* fragment.split(/\s+/) of a trimmed fragment
SplitOnSpaces(s) == IF s = <<>> THEN << <<>> >> ELSE words(s)

\* resolveWithLinguisticAnalysis(fragment, context)
resolveWithLinguisticAnalysis(fragment) ==
  LET ws == SplitOnSpaces(fragment)
      adjunct == FirstIndex([i \in 1..(Len(ws) - 1) |-> ws[i + 1]],
                            LAMBDA nextWord : nextWord \in SeqToSet(nounAdjectives))
      hint == FirstIndex(prepositionHints, LAMBDA h :
                TestWords(fragment, h.alts) /\ mapHintTypeToConcept(h.concept, fragment) # UNDEF)
  IN IF adjunct # 0 THEN Resolution(ws[adjunct], 7500, "noun_adjunct")
     ELSE IF hint # 0
          THEN Resolution(mapHintTypeToConcept(prepositionHints[hint].concept, fragment),
                          6500, "preposition_hint")
     ELSE NoResolution

\* fragment.match(/\$\d/) || fragment.match(/\d+\.?\d*/)
HasDigit(s) == \E i \in 1..Len(s) : IsDigit(s[i])

Hint(concept, weight) == [concept |-> concept, weight |-> weight]

\* resolveWithContextAnalysis(fragment, context): the first hint of the
\* highest weight (the sort is stable)
resolveWithContextAnalysis(fragment) ==
  LET contextHints ==
        (IF includes(fragment, <<"p","r","i","n","c","i","p","a","l">>) \/ includes(fragment, <<"l","o","a","n">>)
         THEN <<Hint(<<"p","r","i","n","c","i","p","a","l">>, 8000)>> ELSE <<>>) \o
        (IF includes(fragment, <<"b","a","l","a","n","c","e">>) \/ includes(fragment, <<"a","c","c","o","u","n","t">>)
         THEN <<Hint(<<"b","a","l","a","n","c","e">>, 8000)>> ELSE <<>>) \o
        (IF includes(fragment, <<"b","r","a","n","c","h">>) \/ includes(fragment, <<"l","o","c","a","t","i","o","n">>)
         THEN <<Hint(<<"b","r","a","n","c","h">>, 8000)>> ELSE <<>>) \o
        (IF includes(fragment, <<"r","a","t","e">>) \/ includes(fragment, <<"i","n","t","e","r","e","s","t">>)
         THEN <<Hint(<<"r","a","t","e">>, 7000)>> ELSE <<>>) \o
        (IF HasDigit(fragment)
         THEN (IF includes(fragment, <<"l","o","a","n">>) THEN <<Hint(<<"p","r","i","n","c","i","p","a","l">>, 6000)>>
               ELSE <<Hint(<<"b","a","l","a","n","c","e">>, 6000)>>)
         ELSE <<>>)
      best == FirstIndex(contextHints, LAMBDA h :
                \A o \in 1..Len(contextHints) : contextHints[o].weight <= h.weight)
  IN IF contextHints = <<>> THEN NoResolution
     ELSE Resolution(contextHints[best].concept, contextHints[best].weight, "context_analysis")

\* calculateSimilarity(str1, str2), the declaration in force: the words in
\* common over the words of both, as a fraction
calculateSimilarity(str1, str2) ==
  The({ [num |-> Cardinality(words1 \cap words2), den |-> Cardinality(words1 \cup words2)]
        : words1 \in {SeqToSet(SplitOnSpaces(toLowerCase(str1)))},
          words2 \in {SeqToSet(SplitOnSpaces(toLowerCase(str2)))} })

\* a / b > c / d for fractions with positive denominators
FractionGreater(a, b) == a.num * b.den > b.num * a.den

MinInt(a, b) == IF a <= b THEN a ELSE b

\* resolveWithStatisticalAnalysis(fragment)
resolveWithStatisticalAnalysis(fragment, history) ==
  IF Len(history) < 3 THEN NoResolution
  ELSE The({
    IF similarFragments = <<>> THEN NoResolution
    ELSE The({ Resolution(bestMatch.resolution.concept,
                          MinInt((bestMatch.resolution.confidence * 8) \div 10, 5500),
                          "statistical")
               : bestMatch \in {similarFragments[
                   FirstIndex(similarFragments, LAMBDA e :
                     \A o \in 1..Len(similarFragments) :
                       ~FractionGreater(
                          calculateSimilarity(fragment, similarFragments[o].fragment),
                          calculateSimilarity(fragment, e.fragment)))]} })
    : similarFragments \in {SelectSeq(history, LAMBDA entry :
        FractionGreater(calculateSimilarity(fragment, entry.fragment),
                        [num |-> 7, den |-> 10]))} })

\* inferFallbackConcept(fragment)
inferFallbackConcept(fragment) ==
  IF includes(fragment, <<"b","r","a","n","c","h">>) THEN <<"b","r","a","n","c","h">>
  ELSE IF includes(fragment, <<"b","a","l","a","n","c","e">>) \/ includes(fragment, <<"a","c","c","o","u","n","t">>) THEN <<"b","a","l","a","n","c","e">>
  ELSE IF includes(fragment, <<"p","r","i","n","c","i","p","a","l">>) \/ includes(fragment, <<"l","o","a","n">>) THEN <<"p","r","i","n","c","i","p","a","l">>
  ELSE IF includes(fragment, <<"r","a","t","e">>) THEN <<"r","a","t","e">>
  ELSE IF includes(fragment, <<"a","m","o","u","n","t">>) THEN <<"a","m","o","u","n","t">>
  ELSE <<"b","a","l","a","n","c","e">>

-----------------------------------------------------------------------------
(* Session learning and condition parsing (js/nlpEngine.js)                 *)

\* the length the query history is cut back to
HistoryLimit == 100

\* the session state of the parser: sessionLearnings and sessionQueryHistory
Session(learnings, history) == [learnings |-> learnings, history |-> history]

\* learnFromResolution(fragment, resolution); the timestamp of a history
\* entry is never read and is left out
learnFromResolution(sess, fragment, resolution) ==
  LET pushed == Append(sess.history, [fragment |-> fragment, resolution |-> resolution])
  IN Session(Put(sess.learnings, fragment, resolution),
             IF Len(pushed) > HistoryLimit
             THEN SubSeq(pushed, Len(pushed) - HistoryLimit + 1, Len(pushed))
             ELSE pushed)

Resolved(resolution, sess) == [resolution |-> resolution, sess |-> sess]

\* intelligentConceptResolution(fragment, context): the resolution and the
\* session state it leaves
intelligentConceptResolution(fragment, sess) ==
  The({
    IF fragment_lower \in DOMAIN sess.learnings
       /\ sess.learnings[fragment_lower].confidence > 8000
    THEN Resolved(sess.learnings[fragment_lower], sess)
    ELSE The({ Resolved(r, learnFromResolution(sess, fragment_lower, r))
               : r \in {The({
                   IF domainResult.confidence > 7000 THEN domainResult
                   ELSE The({
                     IF linguisticResult.confidence > 6000 THEN linguisticResult
                     ELSE The({
                       IF contextResult.confidence > 5000 THEN contextResult
                       ELSE The({
                         IF statisticalResult.confidence > 4000 THEN statisticalResult
                         ELSE Resolution(inferFallbackConcept(fragment_lower), 2000, "fallback")
                         : statisticalResult \in
                             {resolveWithStatisticalAnalysis(fragment_lower, sess.history)} })
                       : contextResult \in {resolveWithContextAnalysis(fragment_lower)} })
                     : linguisticResult \in {resolveWithLinguisticAnalysis(fragment_lower)} })
                   : domainResult \in {resolveWithDomainPatterns(fragment_lower)} })} })
    : fragment_lower \in {trim(toLowerCase(fragment))} })

\* guessConcept(fragment): the concept and the session state left
guessConcept(fragment, sess) ==
  The({ [concept |-> r.resolution.concept, sess |-> r.sess]
        : r \in {intelligentConceptResolution(fragment, sess)} })

\* the last n elements of a sequence (Array.prototype.slice(-n))
LastN(s, n) == IF Len(s) <= n THEN s ELSE SubSeq(s, Len(s) - n + 1, Len(s))

\* extractConditionContext(fragment, matchIndex, matchLength) for a match
extractConditionContext(fragment, m) ==
  LET wordsBefore == words(SubSeq(fragment, 1, m.index - 1))
      lastFewWords == JoinWords(LastN(wordsBefore, 3))
  IN lastFewWords \o <<" ">> \o SubSeq(fragment, m.index, m.end - 1)

IsComma(c) == c = ","

\* Number(text.replace(/,/g, ""))
NumberOf(text) == JSNumber(ReplaceChars(text, IsComma, <<>>))

\* Math.min and Math.max: NaN as soon as one argument is NaN
MathMin(a, b) == IF a.nan \/ b.nan THEN NaN ELSE IF a.v <= b.v THEN a ELSE b
MathMax(a, b) == IF a.nan \/ b.nan THEN NaN ELSE IF a.v >= b.v THEN a ELSE b

NumberCondition(concept, op, v) ==
  [Cond(concept, op, 0, 0, 0, "number") EXCEPT !.value = v]

BetweenCondition(concept, v1, v2) ==
  [Cond(concept, "between", 0, 0, 0, "number") EXCEPT !.valueMin = MathMin(v1, v2),
                                                      !.valueMax = MathMax(v1, v2)]

\* the characters of the text around a between match that make its context
ContextWindow == 50

Parsed(conds, sess) == [conds |-> conds, sess |-> sess]

\* the loop of parseBetweenConditions over the matches
RECURSIVE BetweenConditions(_, _, _)
BetweenConditions(text, ms, sess) ==
  IF ms = <<>> THEN Parsed(<<>>, sess)
  ELSE LET m == Head(ms)
           from == IF m.index - ContextWindow < 1 THEN 1 ELSE m.index - ContextWindow
           to == IF m.end - 1 + ContextWindow > Len(text) THEN Len(text)
                 ELSE m.end - 1 + ContextWindow
       IN The({ The({
            Parsed(<<BetweenCondition(g.concept, NumberOf(m.g1), NumberOf(m.g2))>> \o rest.conds,
                   rest.sess)
            : rest \in {BetweenConditions(text, Tail(ms), g.sess)} })
            : g \in {guessConcept(SubSeq(text, from, to), sess)} })

\* parseBetweenConditions(text)
parseBetweenConditions(text, sess) ==
  BetweenConditions(text, BetweenMatches(toLowerCase(text), 1), sess)

\* branch\s+(?:number\s+|no\.?\s+|#\s*)?(\d+) at position j
BranchTailAt(s, j) ==
  LET a == j + 6
      sp == RunEnd(s, a, IsSpace)
      afterNumber == RunEnd(s, sp + 6, IsSpace)
      dot == IF At(s, sp + 2, <<".">>) THEN sp + 3 ELSE sp + 2
      afterNo == RunEnd(s, dot, IsSpace)
      k == IF At(s, sp, <<"n","u","m","b","e","r">>) /\ afterNumber > sp + 6 THEN afterNumber
           ELSE IF At(s, sp, <<"n","o">>) /\ afterNo > dot THEN afterNo
           ELSE IF At(s, sp, <<"#">>) THEN RunEnd(s, sp + 1, IsSpace)
           ELSE sp
  IN IF At(s, j, <<"b","r","a","n","c","h">>) /\ sp > a /\ DigitsToken(s, k).ok
     THEN [DigitsToken(s, k) EXCEPT !.index = j]
     ELSE NoMatch

\* \b(?:in|at)\s+branch\s+(?:number\s+|no\.?\s+|#\s*)?(\d+) at position i
InBranchAt(s, i) ==
  LET sp == RunEnd(s, i + 2, IsSpace)
  IN IF /\ BoundaryAt(s, i) /\ (At(s, i, <<"i","n">>) \/ At(s, i, <<"a","t">>))
        /\ sp > i + 2 /\ BranchTailAt(s, sp).ok
     THEN [BranchTailAt(s, sp) EXCEPT !.index = i]
     ELSE NoMatch

\* \bbranch\s+(?:number\s+|no\.?\s+|#\s*)?(\d+) at position i
WordBranchAt(s, i) == IF BoundaryAt(s, i) THEN BranchTailAt(s, i) ELSE NoMatch

\* \b(?:of\s+)?type\s+(\d+): the match of type\s+(\d+) at position i
TypeAt(s, i) ==
  LET sp == RunEnd(s, i + 4, IsSpace)
  IN IF BoundaryAt(s, i) /\ At(s, i, <<"t","y","p","e">>) /\ sp > i + 4 /\ DigitsToken(s, sp).ok
     THEN [DigitsToken(s, sp) EXCEPT !.index = i]
     ELSE NoMatch

\* (?:w1|w2|...)\s+\$?([\d,\.]+) at position i
KeywordNumberAt(s, i, alts) ==
  LET k == FirstIndex(alts, LAMBDA w :
             /\ At(s, i, w)
             /\ RunEnd(s, i + Len(w), IsSpace) > i + Len(w)
             /\ NumberToken(s, RunEnd(s, i + Len(w), IsSpace)).ok)
  IN IF k = 0 THEN NoMatch
     ELSE [NumberToken(s, RunEnd(s, i + Len(alts[k]), IsSpace)) EXCEPT !.index = i]

GreaterWords == <<<<"g","r","e","a","t","e","r"," ","t","h","a","n">>, <<"o","v","e","r">>, <<"a","b","o","v","e">>, <<"m","o","r","e"," ","t","h","a","n">>, <<"h","i","g","h","e","r"," ","t","h","a","n">>,
                  <<"b","i","g","g","e","r"," ","t","h","a","n">>, <<"l","a","r","g","e","r"," ","t","h","a","n">>>>
LessWords == <<<<"l","e","s","s"," ","t","h","a","n">>, <<"u","n","d","e","r">>, <<"b","e","l","o","w">>, <<"f","e","w","e","r"," ","t","h","a","n">>, <<"s","m","a","l","l","e","r"," ","t","h","a","n">>,
               <<"l","o","w","e","r"," ","t","h","a","n">>>>

GreaterAt(s, i) == KeywordNumberAt(s, i, GreaterWords)
LessAt(s, i) == KeywordNumberAt(s, i, LessWords)

TimeUnits == <<<<"m","o","n","t","h">>, <<"m","o","n","t","h","s">>, <<"y","e","a","r">>, <<"y","e","a","r","s">>, <<"d","a","y">>, <<"d","a","y","s">>>>

\* last\s+(\d+)\s+(month|months|year|years|day|days) at position i
LastAt(s, i) ==
  LET sp == RunEnd(s, i + 4, IsSpace)
      d == DigitsToken(s, sp)
      sp2 == RunEnd(s, d.end, IsSpace)
      u == FirstIndex(TimeUnits, LAMBDA w : At(s, sp2, w))
  IN IF At(s, i, <<"l","a","s","t">>) /\ sp > i + 4 /\ d.ok /\ sp2 > d.end /\ u # 0
     THEN [ok |-> TRUE, index |-> i, end |-> sp2 + Len(TimeUnits[u]), g1 |-> d.g1,
           g2 |-> TimeUnits[u]]
     ELSE NoMatch

\* guessDateConcept(fragment)
guessDateConcept(fragment) ==
  IF includes(fragment, <<"c","l","o","s","e","d">>) \/ includes(fragment, <<"c","l","o","s","e">>) THEN <<"c","l","o","s","e">>
  ELSE IF includes(fragment, <<"o","p","e","n","e","d">>) \/ includes(fragment, <<"o","p","e","n">>) THEN <<"o","p","e","n">>
  ELSE IF includes(fragment, <<"m","a","t","u","r","i","t","y">>) THEN <<"m","a","t","u","r","i","t","y">>
  ELSE <<"d","a","t","e">>

\* the condition of a "last N units" match
TimeCondition(fragment, m) ==
  [Cond(guessDateConcept(fragment), "after", 0, 0, 0, "date") EXCEPT
     !.relativeTime = [unit |-> IF startsWith(m.g2, <<"d","a","y">>) THEN "days"
                                ELSE IF startsWith(m.g2, <<"y","e","a","r">>) THEN "years"
                                ELSE "months",
                       value |-> NumberOf(m.g1).v]]

\* an optional call of guessConcept on the context of a match
GuessIf(fragment, m, sess) ==
  IF m.ok THEN guessConcept(extractConditionContext(fragment, m), sess)
  ELSE [concept |-> UNDEF, sess |-> sess]

\* parseConditionFragment(fragment): the conditions and the session state left
parseConditionFragment(fragment, sess) ==
  The({ The({ The({ The({
    Parsed(
       (IF branchMatch.ok THEN <<NumberCondition(<<"b","r","a","n","c","h">>, "=", NumberOf(branchMatch.g1))>>
        ELSE <<>>) \o
       (IF typeMatch.ok THEN <<NumberCondition(<<"t","y","p","e">>, "=", NumberOf(typeMatch.g1))>>
        ELSE <<>>) \o
       (IF betweenMatch.ok
        THEN <<BetweenCondition(b.concept, NumberOf(betweenMatch.g1), NumberOf(betweenMatch.g2))>>
        ELSE <<>>) \o
       (IF gtMatch.ok THEN <<NumberCondition(g.concept, ">", NumberOf(gtMatch.g1))>> ELSE <<>>) \o
       (IF ltMatch.ok THEN <<NumberCondition(l.concept, "<", NumberOf(ltMatch.g1))>> ELSE <<>>) \o
       (IF timeMatch.ok THEN <<TimeCondition(fragment, timeMatch)>> ELSE <<>>),
       l.sess)
    : l \in {GuessIf(fragment, ltMatch, g.sess)} })
    : g \in {GuessIf(fragment, gtMatch, b.sess)} })
    : b \in {GuessIf(fragment, betweenMatch, sess)} })
    : branchMatch \in {The({ IF inBranch.ok THEN inBranch
                             ELSE FirstMatch(fragment, 1, WordBranchAt)
                             : inBranch \in {FirstMatch(fragment, 1, InBranchAt)} })},
      typeMatch \in {FirstMatch(fragment, 1, TypeAt)},
      betweenMatch \in {FirstMatch(fragment, 1, BetweenAt)},
      gtMatch \in {FirstMatch(fragment, 1, GreaterAt)},
      ltMatch \in {FirstMatch(fragment, 1, LessAt)},
      timeMatch \in {FirstMatch(fragment, 1, LastAt)} })

RECURSIVE FragmentConditions(_, _)
FragmentConditions(parts, sess) ==
  IF parts = <<>> THEN Parsed(<<>>, sess)
  ELSE The({ The({ Parsed(first.conds \o rest.conds, rest.sess)
                   : rest \in {FragmentConditions(Tail(parts), first.sess)} })
             : first \in {parseConditionFragment(Head(parts), sess)} })

\* [0-9a-zA-Z\/\-\.,\s]
IsDateChar(c) == IsAlnum(c) \/ c \in {"/", "-", ".", ",", " "}

DateFieldWords == <<<<"o","p","e","n","e","d">>, <<"o","p","e","n">>, <<"c","l","o","s","e","d">>, <<"c","l","o","s","e">>, <<"m","a","t","u","r","e","d">>, <<"m","a","t","u","r","i","t","y">>>>

\* (?=\s+(?:and|or)\b|$) at position e
DateLookahead(s, e) ==
  LET sp == RunEnd(s, e, IsSpace)
  IN \/ e = Len(s) + 1
     \/ (sp > e /\ ((At(s, sp, <<"a","n","d">>) /\ BoundaryAt(s, sp + 3))
                    \/ (At(s, sp, <<"o","r">>) /\ BoundaryAt(s, sp + 2))))

\* (before|after)\s+([0-9a-zA-Z\/\-\.,\s]+?)(?=\s+(?:and|or)\b|$) at position j:
\* the shortest date text that the lookahead follows
DateTailAt(s, j) ==
  LET w == IF At(s, j, <<"b","e","f","o","r","e">>) THEN <<"b","e","f","o","r","e">> ELSE <<"a","f","t","e","r">>
      sp == RunEnd(s, j + Len(w), IsSpace)
      ends == { e \in (sp + 1)..(Len(s) + 1) :
                  (\A k \in sp..(e - 1) : IsDateChar(s[k])) /\ DateLookahead(s, e) }
  IN IF (At(s, j, <<"b","e","f","o","r","e">>) \/ At(s, j, <<"a","f","t","e","r">>)) /\ sp > j + Len(w) /\ ends # {}
     THEN [ok |-> TRUE, index |-> j, end |-> MinOf(ends), g1 |-> w,
           g2 |-> SubSeq(s, sp, MinOf(ends) - 1)]
     ELSE NoMatch

\* the whole date pattern at position i; field is the optional first group
DateAt(s, i) ==
  LET f == FirstIndex(DateFieldWords, LAMBDA w :
             /\ At(s, i, w)
             /\ RunEnd(s, i + Len(w), IsSpace) > i + Len(w)
             /\ DateTailAt(s, RunEnd(s, i + Len(w), IsSpace)).ok)
      tail == IF f # 0 THEN DateTailAt(s, RunEnd(s, i + Len(DateFieldWords[f]), IsSpace))
              ELSE DateTailAt(s, i)
  IN IF BoundaryAt(s, i) /\ tail.ok
     THEN [ok |-> TRUE, index |-> i, end |-> tail.end, g1 |-> tail.g1, g2 |-> tail.g2,
           field |-> IF f # 0 THEN DateFieldWords[f] ELSE UNDEF]
     ELSE [ok |-> FALSE, index |-> 0, end |-> 0, g1 |-> <<>>, g2 |-> <<>>, field |-> UNDEF]

\* text.trim().replace(/,/g, " ").replace(/\s+/g, " ")
CleanDateText(text) == JoinWords(words(ReplaceChars(trim(text), IsComma, <<" ">>)))

\* parseDateString(text).toISOString(), UNDEF when the text is no date.  The
\* date texts of the model are ISO days (YYYY-MM-DD), which every engine reads
\* as that day at midnight UTC, or texts that no pattern of the function and
\* no engine reads as a date.
parseDateString(text) ==
  IF IsIsoDate(CleanDateText(text)) THEN CleanDateText(text) \o <<"T","0","0",":","0","0",":","0","0",".","0","0","0","Z">> ELSE UNDEF

\* the loop of extractDateConditions over the matches, from position from
RECURSIVE DateConditions(_, _, _)
DateConditions(text, from, lastField) ==
  The({
    IF starts = {} THEN <<>>
    ELSE The({ The({
      IF fieldWord = UNDEF \/ parsedDate = UNDEF THEN rest
      ELSE <<[Cond(\* concept
                   IF includes(fieldWord, <<"o","p","e","n">>) THEN <<"o","p","e","n">>
                   ELSE IF includes(fieldWord, <<"c","l","o","s","e">>) THEN <<"c","l","o","s","e">>
                   ELSE <<"m","a","t","u","r","i","t","y">>,
                   IF m.g1 = <<"b","e","f","o","r","e">> THEN "before" ELSE "after", 0, 0, 0, "date")
                EXCEPT !.absoluteDate = parsedDate]>> \o rest
      : fieldWord \in {IF m.field # UNDEF THEN m.field ELSE lastField},
        parsedDate \in {parseDateString(trim(m.g2))},
        rest \in {DateConditions(text, m.end, IF m.field # UNDEF THEN m.field ELSE lastField)} })
      : m \in {DateAt(toLowerCase(text), MinOf(starts))} })
    : starts \in {{ i \in from..Len(text) : DateAt(toLowerCase(text), i).ok }} })

\* extractDateConditions(text)
extractDateConditions(text) == DateConditions(text, 1, UNDEF)

ACTION_WORDS == <<<<"s","h","o","w">>, <<"f","i","n","d">>, <<"l","i","s","t">>, <<"s","h","a","r","e">>, <<"c","a","l","c","u","l","a","t","e">>, <<"c","o","m","p","u","t","e">>, <<"g","e","t">>>>

STATISTICAL_OPERATIONS == <<<<"m","e","a","n">>, <<"a","v","e","r","a","g","e">>, <<"a","v","g">>, <<"s","t","a","n","d","a","r","d"," ","d","e","v","i","a","t","i","o","n">>, <<"s","t","d"," ","d","e","v">>,
                            <<"s","t","d","d","e","v">>, <<"s","t","d">>, <<"m","e","d","i","a","n">>, <<"m","i","n">>, <<"m","i","n","i","m","u","m">>, <<"m","a","x">>,
                            <<"m","a","x","i","m","u","m">>, <<"s","u","m">>, <<"c","o","u","n","t">>, <<"v","a","r","i","a","n","c","e">>>>

ENTITY_WORDS == <<<<"l","o","a","n">>, <<"l","o","a","n","s">>, <<"c","u","s","t","o","m","e","r">>, <<"c","u","s","t","o","m","e","r","s">>, <<"c","h","e","c","k","i","n","g">>, <<"a","c","c","o","u","n","t","s">>,
                  <<"d","e","p","o","s","i","t","s">>, <<"b","r","a","n","c","h">>, <<"b","r","a","n","c","h","e","s">>>>

\* \b<op>\s+of\s+([^\s]+(?:\s+[^\s]+)*) at position i of the trimmed text
StatAt(s, i, op) ==
  LET sp == RunEnd(s, i + Len(op), IsSpace)
      sp2 == RunEnd(s, sp + 2, IsSpace)
  IN IF /\ BoundaryAt(s, i) /\ At(s, i, op) /\ sp > i + Len(op)
        /\ At(s, sp, <<"o","f">>) /\ sp2 > sp + 2 /\ sp2 <= Len(s)
     THEN [ok |-> TRUE, index |-> i, end |-> Len(s) + 1, g1 |-> SubSeq(s, sp2, Len(s)),
           g2 |-> <<>>]
     ELSE NoMatch

\* text.match(opPattern) for one operation
StatMatch(s, op) ==
  LET starts == { i \in 1..Len(s) : StatAt(s, i, op).ok }
  IN IF starts = {} THEN NoMatch ELSE StatAt(s, MinOf(starts), op)

\* extractFieldFromPhrase(phrase)
extractFieldFromPhrase(phrase) ==
  LET lower == toLowerCase(phrase)
      ws == SplitOnSpaces(lower)
      other == FirstIndex(ws, LAMBDA word :
                 ~(word \in {<<"l","o","a","n">>, <<"l","o","a","n","s">>, <<"c","h","e","c","k","i","n","g">>, <<"a","c","c","o","u","n","t">>, <<"a","c","c","o","u","n","t","s">>}))
  IN IF includes(lower, <<"r","a","t","e">>) THEN <<"r","a","t","e">>
     ELSE IF includes(lower, <<"b","a","l","a","n","c","e">>) THEN <<"b","a","l","a","n","c","e">>
     ELSE IF includes(lower, <<"p","r","i","n","c","i","p","a","l">>) THEN <<"p","r","i","n","c","i","p","a","l">>
     ELSE IF includes(lower, <<"a","m","o","u","n","t">>) THEN <<"a","m","o","u","n","t">>
     ELSE IF includes(lower, <<"p","a","y","m","e","n","t">>) THEN <<"p","a","y","m","e","n","t">>
     ELSE IF includes(lower, <<"c","h","a","r","g","e">>) THEN <<"c","h","a","r","g","e">>
     ELSE IF other # 0 THEN ws[other]
     ELSE phrase

\* the statistical operation of a prompt: the first operation of the list
\* whose pattern matches, with its field; none is the empty text
DetectStatistic(text) ==
  LET lower == toLowerCase(text)
      k == FirstIndex(STATISTICAL_OPERATIONS, LAMBDA op : StatMatch(lower, op).ok)
  IN IF k = 0 THEN [statisticalOp |-> <<>>, statisticalField |-> <<>>]
     ELSE [statisticalOp |-> STATISTICAL_OPERATIONS[k],
           statisticalField |->
             extractFieldFromPhrase(StatMatch(lower, STATISTICAL_OPERATIONS[k]).g1)]

\* the intent classification of parsePrompt
DetectIntent(lower) ==
  LET a == FirstIndex(ACTION_WORDS, LAMBDA action :
             startsWith(lower, action \o <<" ">>) \/ startsWith(lower, action \o <<"s"," ">>))
      explicit == IF a = 0 THEN "show"
                  ELSE IF ACTION_WORDS[a] \in {<<"c","a","l","c","u","l","a","t","e">>, <<"c","o","m","p","u","t","e">>} THEN "show"
                  ELSE CASE ACTION_WORDS[a] = <<"s","h","o","w">> -> "show"
                         [] ACTION_WORDS[a] = <<"f","i","n","d">> -> "find"
                         [] ACTION_WORDS[a] = <<"l","i","s","t">> -> "list"
                         [] ACTION_WORDS[a] = <<"s","h","a","r","e">> -> "share"
                         [] OTHER -> "get"
      intentConfidence == IF startsWith(lower, <<"c","u","s","t","o","m","e","r","s"," ","w","i","t","h">>) THEN 9000
                          ELSE IF a # 0 THEN 9500 ELSE 5000
      dataWords == <<<<"l","o","a","n">>, <<"c","u","s","t","o","m","e","r">>, <<"c","h","e","c","k","i","n","g">>, <<"a","c","c","o","u","n","t">>, <<"b","r","a","n","c","h">>, <<"b","a","l","a","n","c","e">>,
                     <<"r","a","t","e">>>>
  IN IF startsWith(lower, <<"c","u","s","t","o","m","e","r","s"," ","w","i","t","h">>) THEN "show"
     ELSE IF intentConfidence < 8000 /\ (\E w \in 1..Len(dataWords) : includes(lower, dataWords[w]))
          THEN "show"
     ELSE explicit

-----------------------------------------------------------------------------
\* Entities of a prompt (nlpEngine.js)

FUZZY_MATCH_THRESHOLD == [num |-> 8, den |-> 10]
FUZZY_MAX_DISTANCE == 2

MinOf3(a, b, c) == MinInt(a, MinInt(b, c))

\* one row of the distance matrix: cells holds the cells filled so far of the
\* row of character c, prev is the row above
RECURSIVE LevCells(_, _, _, _)
LevCells(a, c, prev, cells) ==
  LET i == Len(cells)
  IN IF i > Len(a) THEN cells
     ELSE LevCells(a, c, prev,
            Append(cells, MinOf3(cells[i] + 1, prev[i + 1] + 1,
                                 prev[i] + (IF a[i] = c THEN 0 ELSE 1))))

\* the rows of the matrix, matrix holding the rows filled so far
RECURSIVE LevRows(_, _, _)
LevRows(a, b, matrix) ==
  LET j == Len(matrix)
  IN IF j > Len(b) THEN matrix
     ELSE LevRows(a, b, Append(matrix, LevCells(a, b[j], matrix[j], <<j>>)))

\* levenshteinDistance(a, b)
levenshteinDistance(a, b) ==
  LevRows(a, b, << [i \in 1..(Len(a) + 1) |-> i - 1] >>)[Len(b) + 1][Len(a) + 1]

\* findFuzzyEntityMatches(promptWords, entityWord): the matching words with
\* their similarity; calculateSimilarity is the declaration in force
findFuzzyEntityMatches(promptWords, entityWord) ==
  The({ The({ [i \in 1..Len(hits) |->
                 [word |-> promptWords[hits[i]], entity |-> entityWord,
                  similarity |-> similarity[hits[i]]]]
              : hits \in {SelectSeq([i \in 1..Len(promptWords) |-> i], LAMBDA i :
                  /\ ~FractionGreater(FUZZY_MATCH_THRESHOLD, similarity[i])
                  /\ levenshteinDistance(toLowerCase(promptWords[i]), toLowerCase(entityWord))
                       <= FUZZY_MAX_DISTANCE)} })
        : similarity \in {[i \in 1..Len(promptWords) |->
            calculateSimilarity(toLowerCase(promptWords[i]), toLowerCase(entityWord))]} })

\* normalizeEntity(entityWord)
normalizeEntity(entityWord) ==
  The({ IF lower \in {<<"l","o","a","n">>, <<"l","o","a","n","s">>} THEN <<"l","o","a","n","s">>
        ELSE IF lower \in {<<"c","u","s","t","o","m","e","r">>, <<"c","u","s","t","o","m","e","r","s">>} THEN <<"c","u","s","t","o","m","e","r","s">>
        ELSE IF lower \in {<<"c","h","e","c","k","i","n","g">>, <<"a","c","c","o","u","n","t","s">>} THEN <<"c","h","e","c","k","i","n","g">>
        ELSE IF lower = <<"d","e","p","o","s","i","t","s">> THEN <<"d","e","p","o","s","i","t","s">>
        ELSE IF lower \in {<<"b","r","a","n","c","h">>, <<"b","r","a","n","c","h","e","s">>} THEN <<"b","r","a","n","c","h","e","s">>
        ELSE lower
        : lower \in {toLowerCase(entityWord)} })

\* Array.prototype.sort by descending key, stable: an element stands behind
\* those of a greater key and those of its key that stood before it
SortDesc(items) ==
  LET Before(i) == { j \in 1..Len(items) :
                       \/ items[j].key > items[i].key
                       \/ (items[j].key = items[i].key /\ j < i) }
  IN [p \in 1..Len(items) |->
        items[CHOOSE i \in 1..Len(items) : Cardinality(Before(i)) = p - 1]]

\* the elements of a sequence without the later repetitions
Unique(s) ==
  LET tagged == [i \in 1..Len(s) |-> [i |-> i, v |-> s[i]]]
      kept == SelectSeq(tagged, LAMBDA e : \A j \in 1..(e.i - 1) : s[j] # e.v)
  IN [i \in 1..Len(kept) |-> kept[i].v]

EntityMatch(entity, confidence, matchType) ==
  [entity |-> entity, key |-> confidence, matchType |-> matchType]

\* the fuzzy matches of the entity words from position k on
RECURSIVE FuzzyEntityMatches(_, _, _, _)
FuzzyEntityMatches(promptWords, foundEntities, branchCondition, k) ==
  IF k > Len(ENTITY_WORDS) THEN <<>>
  ELSE The({
    (IF entity \in foundEntities THEN <<>>
     ELSE IF entity = <<"b","r","a","n","c","h","e","s">> /\ branchCondition THEN <<>>
     ELSE The({ [i \in 1..Len(fuzzyMatches) |->
                   EntityMatch(entity,
                               (fuzzyMatches[i].similarity.num * 8000)
                                  \div fuzzyMatches[i].similarity.den, "fuzzy")]
                : fuzzyMatches \in {findFuzzyEntityMatches(promptWords, ENTITY_WORDS[k])} }))
      \o FuzzyEntityMatches(promptWords, foundEntities, branchCondition, k + 1)
    : entity \in {normalizeEntity(ENTITY_WORDS[k])} })

\* the entity extraction without the skip of branch and branches among the exact
\* matches when the prompt has a branch condition
ExtractEntities_KeepBranch(text, allConditions) ==
  The({ The({ The({ The({ The({
    IF targetEntities = <<>> /\ branchCondition THEN <<<<"b","r","a","n","c","h","e","s">>>> ELSE targetEntities
    : targetEntities \in {The({ Unique([i \in 1..Len(ordered) |-> ordered[i].entity])
        : ordered \in {SortDesc(exact \o FuzzyEntityMatches(
                                  SplitOnSpaces(lower),
                                  { exact[i].entity : i \in 1..Len(exact) },
                                  branchCondition, 1))} })} })
    : exact \in {[i \in 1..Len(exactWords) |->
                    EntityMatch(normalizeEntity(exactWords[i]), 10000, "exact")]} })
    : exactWords \in {SelectSeq(ENTITY_WORDS, LAMBDA entityWord :
                        includes(lower, entityWord))} })
    : branchCondition \in
        {\/ \E i \in 1..Len(allConditions) : allConditions[i].concept = <<"b","r","a","n","c","h">>
         \/ FirstMatch(lower, 1, InBranchAt).ok} })
    : lower \in {toLowerCase(text)} })

\* the entity extraction of parsePrompt: finalTargetEntities
ExtractEntities(text, allConditions) ==
  The({ The({ The({ The({ The({
    IF targetEntities = <<>> /\ branchCondition THEN <<<<"b","r","a","n","c","h","e","s">>>> ELSE targetEntities
    : targetEntities \in {The({ Unique([i \in 1..Len(ordered) |-> ordered[i].entity])
        : ordered \in {SortDesc(exact \o FuzzyEntityMatches(
                                  SplitOnSpaces(lower),
                                  { exact[i].entity : i \in 1..Len(exact) },
                                  branchCondition, 1))} })} })
    : exact \in {[i \in 1..Len(exactWords) |->
                    EntityMatch(normalizeEntity(exactWords[i]), 10000, "exact")]} })
    : exactWords \in {SelectSeq(ENTITY_WORDS, LAMBDA entityWord :
                        /\ includes(lower, entityWord)
                        /\ ~(entityWord \in {<<"b","r","a","n","c","h">>, <<"b","r","a","n","c","h","e","s">>} /\ branchCondition))} })
    : branchCondition \in
        {\/ \E i \in 1..Len(allConditions) : allConditions[i].concept = <<"b","r","a","n","c","h">>
         \/ FirstMatch(lower, 1, InBranchAt).ok} })
    : lower \in {toLowerCase(text)} })

-----------------------------------------------------------------------------
\* Function libraries and their keyword index (library/financial.js,
\* functionRegistry.js, nlpEngine.js)

\* buildKeywordEntries() over the functions of window.FunctionLibrary: no
\* function of the libraries declares keywords
buildKeywordEntries(libraries) ==
  The({ [i \in 1..Len(library) |->
           The({ [library |-> func.library, functionName |-> func.functionName,
                  function |-> func,
                  keywords |-> The({ {fnLower} \cup SeqToSet(KeywordTokens(fnLower))
                                     : fnLower \in {toLowerCase(func.functionName)} })
                                 \cup normalizeKeywordsFromDescription(func.description),
                  descriptionLower |-> toLowerCase(func.description)]
                 : func \in {library[i]} })]
        : library \in {libraries} })

\* the score findBestFunctionByPrompt gives an entry
EntryScore(entry, lowerPrompt, tokens) ==
  LET phraseHits == { kw \in entry.keywords : Len(kw) >= 3 /\ includes(lowerPrompt, kw) }
      keywordHits == { t \in tokens : t \in entry.keywords }
      descriptionHits == { t \in tokens : ~(t \in entry.keywords)
                                          /\ includes(entry.descriptionLower, t) }
      nameHits == { t \in tokens : includes(toLowerCase(entry.functionName), t) /\ Len(t) > 3 }
  IN 3 * Cardinality(phraseHits) + 2 * Cardinality(keywordHits)
       + Cardinality(descriptionHits) + 3 * Cardinality(nameHits)

\* the loop of findBestFunctionByPrompt over the entries from position k on:
\* the position of the best entry so far and its score
RECURSIVE BestEntry(_, _, _, _, _, _, _)
BestEntry(entries, lowerPrompt, tokens, targetEntities, k, best, bestScore) ==
  IF k > Len(entries) THEN [best |-> best, bestScore |-> bestScore]
  ELSE The({ BestEntry(entries, lowerPrompt, tokens, targetEntities, k + 1,
                       better[1], better[2])
             : better \in {
                 IF /\ targetEntities # <<>>
                    /\ ~\E f \in 1..Len(entries[k].function.entities),
                           t \in 1..Len(targetEntities) :
                          toLowerCase(entries[k].function.entities[f])
                            = toLowerCase(targetEntities[t])
                 THEN <<best, bestScore>>
                 ELSE The({ IF score > bestScore THEN <<k, score>> ELSE <<best, bestScore>>
                            : score \in {EntryScore(entries[k], lowerPrompt, tokens)} })} })

\* findBestFunctionByPrompt(promptText, targetEntities) with entries the value
\* of getKeywordEntries(): the position of the function in the index, 0 for null
findBestFunctionByPrompt(entries, promptText, targetEntities) ==
  The({ The({ IF promptText = <<>> \/ tokens = {} THEN 0
              ELSE BestEntry(entries, lowerPrompt, tokens, targetEntities, 1, 0, 0).best
              : tokens \in {The({ baseTokens \cup UNION { Variation(t) : t \in baseTokens }
                                  : baseTokens \in {SeqToSet(KeywordTokens(lowerPrompt))} })} })
        : lowerPrompt \in {toLowerCase(promptText)} })

\* the keyword index of the page, whose libraries are those of FunctionLibrary
\* from the load on
pageKeywordEntries == buildKeywordEntries(FunctionLibrary)

\* findFunctionByDescription(searchText) on the page
findFunctionByDescription(searchText) ==
  findBestFunctionByPrompt(pageKeywordEntries, searchText, <<>>)

\* the keywords getAllFunctionKeywords adds for the description words from
\* position i on: the pair and the triple that start at each word
RECURSIVE WordCombinations(_, _)
WordCombinations(descWords, i) ==
  IF i > Len(descWords) - 1 THEN <<>>
  ELSE <<descWords[i] \o <<" ">> \o descWords[i + 1]>>
       \o (IF i < Len(descWords) - 1
           THEN <<descWords[i] \o <<" ">> \o descWords[i + 1] \o <<" ">> \o descWords[i + 2]>>
           ELSE <<>>)
       \o WordCombinations(descWords, i + 1)

\* the keywords getAllFunctionKeywords adds for one function, in order
FunctionKeywords(func) ==
  LET descWords == SelectSeq(words(ReplaceChars(toLowerCase(func.description),
                                                IsPunctuation, <<" ">>)),
                             LAMBDA word : Len(word) >= 3 /\ ~(word \in keywordStopWords))
      funcNameLower == toLowerCase(func.functionName)
  IN descWords \o WordCombinations(descWords, 1)
       \o << funcNameLower,
             <<"a","v","e","r","a","g","e"," ">> \o funcNameLower,
             <<"m","e","a","n"," ">> \o funcNameLower,
             <<"c","a","l","c","u","l","a","t","e"," ">> \o funcNameLower,
             funcNameLower \o <<" ","o","f">>,
             <<"f","i","n","d"," ">> \o funcNameLower >>

RECURSIVE LibraryKeywords(_)
LibraryKeywords(k) ==
  IF k > Len(FunctionLibrary) THEN <<>>
  ELSE FunctionKeywords(FunctionLibrary[k]) \o LibraryKeywords(k + 1)

\* getAllFunctionKeywords(): the keywords in the order of their first
\* insertion, sorted by descending length
getAllFunctionKeywords ==
  The({ [i \in 1..Len(ordered) |-> ordered[i].keyword]
        : ordered \in {The({ SortDesc([i \in 1..Len(keywords) |->
                                         [key |-> Len(keywords[i]), keyword |-> keywords[i]]])
                             : keywords \in {Unique(LibraryKeywords(1))} })} })

\* functionCall of a found function
FunctionCall(k) ==
  [library |-> FunctionLibrary[k].library, functionName |-> FunctionLibrary[k].functionName,
   description |-> FunctionLibrary[k].description]

\* the function call detection without the skip of multi-entity queries
DetectFunctionCall_AnyEntities(lower, finalTargetEntities) ==
  LET Has(word) == includes(lower, word)
      hasExplicitFunctionIntent ==
        \E w \in {<<"c","a","l","c","u","l","a","t","e">>, <<"c","o","m","p","u","t","e">>, <<"d","e","t","e","r","m","i","n","e">>, <<"m","e","a","s","u","r","e">>, <<"e","s","t","i","m","a","t","e">>} : Has(w)
      hasFunctionPattern ==
        \E w \in {<<"a","v","e","r","a","g","e">>, <<"m","e","a","n">>, <<"t","o","t","a","l">>, <<"s","u","m">>, <<"c","o","u","n","t">>, <<"m","i","n","i","m","u","m">>, <<"m","a","x","i","m","u","m">>,
                  <<"s","t","a","n","d","a","r","d"," ","d","e","v","i","a","t","i","o","n">>} : Has(w)
      hasFunctionIntent ==
        hasExplicitFunctionIntent
          \/ (hasFunctionPattern /\ \E w \in {<<"f","i","n","d">>, <<"g","e","t">>} : Has(w))
  IN IF ~hasFunctionIntent THEN NoFunctionCall
     ELSE The({ The({ The({ IF hit = 0 THEN NoFunctionCall ELSE FunctionCall(found[hit])
                            : hit \in {FirstIndex(found, LAMBDA f : f # 0)} })
                      : found \in {[i \in 1..Len(searched) |->
                                      findFunctionByDescription(searched[i])]} })
                : searched \in {The({
                    SelectSeq(keywords, LAMBDA keyword : includes(lower, toLowerCase(keyword)))
                      \o [i \in 1..(Len(ws) - 1) |-> ws[i] \o <<" ">> \o ws[i + 1]]
                    : keywords \in {getAllFunctionKeywords}, ws \in {SplitOnSpaces(lower)} })} })

\* the function call detection of parsePrompt: the first keyword of the library
\* the prompt includes and that names a function, else the first two-word phrase
\* of the prompt that names one
DetectFunctionCall(lower, finalTargetEntities) ==
  LET Has(word) == includes(lower, word)
      hasExplicitFunctionIntent ==
        \E w \in {<<"c","a","l","c","u","l","a","t","e">>, <<"c","o","m","p","u","t","e">>, <<"d","e","t","e","r","m","i","n","e">>, <<"m","e","a","s","u","r","e">>, <<"e","s","t","i","m","a","t","e">>} : Has(w)
      hasFunctionPattern ==
        \E w \in {<<"a","v","e","r","a","g","e">>, <<"m","e","a","n">>, <<"t","o","t","a","l">>, <<"s","u","m">>, <<"c","o","u","n","t">>, <<"m","i","n","i","m","u","m">>, <<"m","a","x","i","m","u","m">>,
                  <<"s","t","a","n","d","a","r","d"," ","d","e","v","i","a","t","i","o","n">>} : Has(w)
      hasFunctionIntent ==
        hasExplicitFunctionIntent
          \/ (hasFunctionPattern /\ \E w \in {<<"f","i","n","d">>, <<"g","e","t">>} : Has(w))
      isMultiEntityQuery == Len(finalTargetEntities) > 1
  IN IF ~hasFunctionIntent \/ isMultiEntityQuery THEN NoFunctionCall
     ELSE The({ The({ The({ IF hit = 0 THEN NoFunctionCall ELSE FunctionCall(found[hit])
                            : hit \in {FirstIndex(found, LAMBDA f : f # 0)} })
                      : found \in {[i \in 1..Len(searched) |->
                                      findFunctionByDescription(searched[i])]} })
                : searched \in {The({
                    SelectSeq(keywords, LAMBDA keyword : includes(lower, toLowerCase(keyword)))
                      \o [i \in 1..(Len(ws) - 1) |-> ws[i] \o <<" ">> \o ws[i + 1]]
                    : keywords \in {getAllFunctionKeywords}, ws \in {SplitOnSpaces(lower)} })} })

\* intent: null
NullIntent == "null"

parsePrompt(prompt, sess) ==
  The({
    IF text = <<>>
    THEN [plan |-> [Plan(<<>>, <<>>, "AND") EXCEPT !.intent = NullIntent], sess |-> sess]
    ELSE
      The({ The({ The({ The({
        [plan |-> [Plan(Unique(finalTargetEntities), allConditions,
                        \* logicalOp
                        IF includes(lower, <<" ","a","n","d"," ">>) THEN "AND"
                        ELSE IF includes(lower, <<" ","o","r"," ">>) THEN "OR"
                        ELSE "AND")
                     EXCEPT !.intent = DetectIntent(lower),
                            !.statisticalOp = statistic.statisticalOp,
                            !.statisticalField = statistic.statisticalField,
                            \* functionCall
                            !.functionCall =
                               IF statistic.statisticalOp # <<>> THEN NoFunctionCall
                               ELSE DetectFunctionCall(lower, finalTargetEntities)],
         sess |-> fragments.sess]
        : finalTargetEntities \in {ExtractEntities(text, allConditions)} })
        : allConditions \in {between.conds \o fragments.conds \o extractDateConditions(text)} })
        \* remainingText, parts
        : fragments \in {FragmentConditions(
                           Fragments(RemainingText(text, Len(between.conds))), between.sess)} })
        : lower \in {toLowerCase(text)},
          statistic \in {DetectStatistic(text)},
          between \in {parseBetweenConditions(text, sess)} })
    : text \in {trim(prompt)} })

-----------------------------------------------------------------------------
\* A session of prompts (nlpEngine.js)

MaxParses == 3

Prompts == {
  <<>>,
  <<" "," "," ">>,
  <<"l","o","a","n","s"," ","b","e","t","w","e","e","n"," ","1","0","0","0"," ","a","n","d"," ","5","0","0","0"," ","o","r"," ","o","v","e","r"," ","9","0","0","0">>,
  <<"c","u","s","t","o","m","e","r","s"," ","i","n"," ","r","e","g","i","o","n"," ","h","i","g","h","e","r"," ","t","h","a","n"," ",".">>,
  <<"c","u","s","t","o","m","e","r","s"," ","r","e","g","i","o","n"," ","h","i","g","h","e","r"," ","t","h","a","n"," ",".">>,
  <<"c","a","l","c","u","l","a","t","e"," ","a","v","e","r","a","g","e"," ","p","r","i","n","c","i","p","a","l">>,
  <<"c","a","l","c","u","l","a","t","e"," ","a","v","e","r","a","g","e"," ","p","r","i","n","c","i","p","a","l"," ","o","f"," ","l","o","a","n","s"," ","a","n","d"," ","c","h","e","c","k","i","n","g">>,
  <<"c","a","l","c","u","l","a","t","e"," ","m","e","a","n"," ","o","f"," ","l","o","a","n"," ","p","r","i","n","c","i","p","a","l">>,
  <<"m","e","a","n"," ","o","f"," ","l","o","a","n"," ","r","a","t","e","s">>,
  <<"l","o","a","n","s"," ","i","n"," ","b","r","a","n","c","h"," ","4">>,
  <<"i","n"," ","b","r","a","n","c","h"," ","4">>,
  <<"b","r","a","n","c","h","e","s"," ","a","t"," ","b","r","a","n","c","h"," ","n","o","."," ","7">> }

ParsePrompt(prompt) ==
  /\ parsed.calls < MaxParses
  /\ \E r \in {parsePrompt(prompt, Session(sessionLearnings, sessionQueryHistory))} :
        /\ parsed' = [calls |-> parsed.calls + 1, text |-> prompt, plan |-> r.plan]
        /\ sessionLearnings' = r.sess.learnings
        /\ sessionQueryHistory' = r.sess.history
  /\ UNCHANGED <<libraryVars, sources, schemas, rows, clock, sourcesMeta, result, run, translators>>

NextParse == \E prompt \in Prompts : ParsePrompt(prompt)

SpecParse == Init /\ [][NextParse]_vars

-----------------------------------------------------------------------------
\* Properties of the prompt parser

FreshSession == Session(EmptyMap, <<>>)

\* C7: the plan parsePrompt returns for a text is the plan a fresh process
\* returns for that text, whatever the session has parsed before: the
\* session caches never change the result.
ParseIndependentOfSession ==
  parsed.calls > 0 => parsed.plan = parsePrompt(parsed.text, FreshSession).plan

\* C8: an empty or whitespace-only prompt yields a plan with intent "show",
\* no target entities and no conditions.
EmptyPromptDefaultsToShow ==
  (parsed.calls > 0 /\ trim(parsed.text) = <<>>) =>
    /\ parsed.plan.intent = "show"
    /\ parsed.plan.targetEntities = <<>>
    /\ parsed.plan.conditions = <<>>

\* the connective of a text: " and " before " or ", AND when there is neither
ConnectiveOf(lower) ==
  IF includes(lower, <<" ","a","n","d"," ">>) THEN "AND"
  ELSE IF includes(lower, <<" ","o","r"," ">>) THEN "OR"
  ELSE "AND"

\* the between clauses of a prompt and the text outside them
BetweenClauses(prompt) == BetweenMatches(toLowerCase(trim(prompt)), 1)
OutsideBetween(prompt) == toLowerCase(RemoveBetween(trim(prompt)))

\* C9: the "and" inside a "between X and Y" clause is no connective: every
\* clause yields exactly one condition, of op between, and logicalOp is
\* decided by the text outside the clauses, so that conditions joined only by
\* "or" get logicalOp OR.
BetweenAndIsNoConnective ==
  (parsed.calls > 0 /\ trim(parsed.text) # <<>>) =>
    /\ Len(SelectSeq(parsed.plan.conditions, LAMBDA c : c.op = "between"))
         = Len(BetweenClauses(parsed.text))
    /\ parsed.plan.logicalOp = ConnectiveOf(OutsideBetween(parsed.text))

-----------------------------------------------------------------------------
\* Plan validation (js/queryEngine.js)

VALID_ENTITIES == <<<<"l","o","a","n","s">>, <<"c","h","e","c","k","i","n","g">>, <<"c","u","s","t","o","m","e","r","s">>, <<"d","e","p","o","s","i","t","s">>, <<"b","r","a","n","c","h","e","s">>,
                    <<"c","e","r","t","i","f","i","c","a","t","e","s">>, <<"s","a","v","i","n","g","s">>, <<"c","r","e","d","i","t"," ","c","a","r","d","s">>, <<"m","o","r","t","g","a","g","e","s">>, <<"i","n","d","i","r","e","c","t">>>>

validStats == <<<<"m","e","a","n">>, <<"a","v","e","r","a","g","e">>, <<"m","i","n">>, <<"m","a","x">>, <<"c","o","u","n","t">>, <<"s","u","m">>,
                <<"s","t","a","n","d","a","r","d"," ","d","e","v","i","a","t","i","o","n">>, <<"v","a","r","i","a","n","c","e">>, <<"m","e","d","i","a","n">>>>

\* the verdict of validateQueryPlan; confidence is in tenths and the issue
\* texts are left out
Validation(isValid, confidence) == [isValid |-> isValid, confidence |-> confidence]

\* a violation that sets the confidence to the limit instead of lowering it
Invalid_Assign(v, limit) == Validation(FALSE, limit)

\* isValid = false; confidence = Math.min(confidence, limit)
Invalid(v, limit) == Validation(FALSE, MinInt(v.confidence, limit))

\* the condition maps to a field of the source of some target entity
FieldFound(sch, metaTypes, plan, meta, condition) ==
  \E e \in 1..Len(plan.targetEntities) :
    \E source \in {pickSourceForEntity(plan.targetEntities[e], meta)} :
       /\ source # NoSource
       /\ Truthy(mapConceptsToFields(sch, metaTypes, source.sourceId, <<condition>>)[1].field)

\* the checks of validateQueryPlan on one condition
CheckCondition(sch, metaTypes, plan, meta, condition, v) ==
  LET v1 == IF ~Truthy(condition.concept) THEN Invalid(v, 8) ELSE v
      v2 == IF condition.op = "" THEN Invalid(v1, 8) ELSE v1
      v3 == IF condition.valueType # "" /\ ~(condition.valueType \in {"number", "date", "string"})
            THEN Invalid(v2, 8) ELSE v2
  IN IF Truthy(condition.concept) /\ ~FieldFound(sch, metaTypes, plan, meta, condition)
     THEN Validation(v3.isValid, MinInt(v3.confidence, 6))
     ELSE v3

RECURSIVE CheckConditions(_, _, _, _, _, _)
CheckConditions(sch, metaTypes, plan, meta, conditions, v) ==
  IF conditions = <<>> THEN v
  ELSE CheckConditions(sch, metaTypes, plan, meta, Tail(conditions),
                       CheckCondition(sch, metaTypes, plan, meta, Head(conditions), v))

\* the verdicts of validateQueryPlan(plan, sourcesMeta) in the order of its
\* checks, reading the schema store sch: at the start, after the intent, the
\* entities, the statistical operation and its field, after each condition,
\* after the conflict check and after the cap
validationSteps(sch, metaTypes, plan, meta) ==
  LET start == Validation(TRUE, 10)
      intent == IF plan.intent = NullIntent \/ plan.intent = "" THEN Validation(FALSE, 0)
                ELSE start
      invalidEntities == SelectSeq(plan.targetEntities,
                                   LAMBDA entity : ~(entity \in SeqToSet(VALID_ENTITIES)))
      known == IF invalidEntities # <<>> THEN Invalid(intent, 3) ELSE intent
      missing == SelectSeq(plan.targetEntities,
                           LAMBDA entity : pickSourceForEntity(entity, meta) = NoSource)
      sourced == IF known.isValid /\ missing # <<>> THEN Invalid(known, 5) ELSE known
      hasStat == plan.statisticalOp # <<>>
  IN The({ The({ The({ The({ The({
       << start, intent, entities, statOp, statField >> \o conditions
          \o << conflict, IF conflict.confidence > 8 THEN Validation(conflict.isValid, 8)
                          ELSE conflict >>
       : conflict \in {IF hasStat /\ plan.functionCall # NoFunctionCall
                       THEN Invalid(conditions[Len(conditions)], 7)
                       ELSE conditions[Len(conditions)]} })
       : conditions \in {[k \in 1..(Len(plan.conditions) + 1) |->
                            CheckConditions(sch, metaTypes, plan, meta,
                                            SubSeq(plan.conditions, 1, k - 1), statField)]} })
       : statField \in {IF hasStat /\ plan.statisticalField = <<>>
                        THEN Invalid(statOp, 7) ELSE statOp} })
       : statOp \in {IF hasStat /\ ~(\E k \in 1..Len(validStats) :
                                       includes(toLowerCase(plan.statisticalOp), validStats[k]))
                     THEN Invalid(entities, 7) ELSE entities} })
       : entities \in {IF plan.targetEntities = <<>> THEN Validation(FALSE, 0) ELSE sourced} })

\* validateQueryPlan(plan, sourcesMeta), reading the schema store sch
validateQueryPlan(sch, metaTypes, plan, meta) ==
  The({ steps[Len(steps)] : steps \in {validationSteps(sch, metaTypes, plan, meta)} })

-----------------------------------------------------------------------------
\* Library functions on result rows (functionRegistry.js, app.js)

\* schema.fields.find(test)?.id
FindFieldId(fields, Test(_)) ==
  IF FirstIndex(fields, Test) = 0 THEN UNDEF ELSE fields[FirstIndex(fields, Test)].id

\* the special handling of mapFunctionParameters for one parameter
KnownParameterField(fields, paramLower) ==
  LET Is(f, word) == toLowerCase(f.name) = word \/ toLowerCase(f.id) = word
      Has(f, word) == includes(toLowerCase(f.name), word) \/ includes(toLowerCase(f.id), word)
  IN IF paramLower = <<"p","r","i","n","c","i","p","a","l">> THEN FindFieldId(fields, LAMBDA f : Is(f, <<"p","r","i","n","c","i","p","a","l">>))
     ELSE IF paramLower = <<"p","a","y","m","e","n","t">> THEN FindFieldId(fields, LAMBDA f : Has(f, <<"p","a","y","m","e","n","t">>))
     ELSE IF paramLower = <<"r","a","t","e">> THEN FindFieldId(fields, LAMBDA f : Is(f, <<"r","a","t","e">>))
     ELSE IF paramLower = <<"m","a","t","u","r","i","t","y">> THEN FindFieldId(fields, LAMBDA f : Has(f, <<"m","a","t","u","r","i","t","y">>))
     ELSE IF paramLower \in {<<"t","e","r","m">>, <<"t","e","r","m","m","o","n","t","h","s">>}
          THEN FindFieldId(fields, LAMBDA f : Has(f, <<"m","o","n","t","h","s">>) \/ Has(f, <<"t","e","r","m">>))
     ELSE UNDEF

\* the field mapFunctionParameters gives one parameter, UNDEF when none
ParameterField(sch, metaTypes, sourceId, param) ==
  LET fields == sch[sourceId]
      paramLower == toLowerCase(param)
      known == KnownParameterField(fields, paramLower)
      tempCondition == Cond(paramLower, "", 0, 0, 0,
                            IF includes(paramLower, <<"m","a","t","u","r","i","t","y">>) \/ includes(paramLower, <<"d","a","t","e">>)
                            THEN "date" ELSE "number")
  IN IF Truthy(known) THEN known
     ELSE The({ IF Truthy(mapped[1].field) THEN mapped[1].field
                ELSE FindFieldId(fields, LAMBDA f :
                       toLowerCase(f.name) = paramLower \/ toLowerCase(f.id) = paramLower)
                : mapped \in {mapConceptsToFields(sch, metaTypes, sourceId, <<tempCondition>>)} })

\* mapFunctionParameters(sourceId, functionInfo): the mapped parameters with
\* their fields
mapFunctionParameters(sch, metaTypes, sourceId, functionInfo) ==
  IF ~HasSchema(sch, sourceId) THEN EmptyMap
  ELSE LET mappedParams == { i \in 1..Len(functionInfo.params) :
                               Truthy(ParameterField(sch, metaTypes, sourceId,
                                                     functionInfo.params[i])) }
       IN [param \in { functionInfo.params[i] : i \in mappedParams } |->
             ParameterField(sch, metaTypes, sourceId, param)]

\* functionName.replace(/([A-Z])/g, ' $1').trim()
RECURSIVE SpaceCapitals(_)
SpaceCapitals(s) ==
  IF s = <<>> THEN <<>>
  ELSE (IF IsUpper(Head(s)) THEN <<" ", Head(s)>> ELSE <<Head(s)>>) \o SpaceCapitals(Tail(s))

resultColumnName(functionName) == trim(SpaceCapitals(functionName))

\* the value a library function returns for a row: never null; the number
\* itself is computed in floating point and is not part of the model
DerivedV == [k |-> "derived", s |-> <<>>, n |-> 0]

\* { ...row, [column]: value }
WithColumn(row, column, value) ==
  [f \in DOMAIN row \cup {column} |-> IF f = column THEN value ELSE row[f]]

\* the position of a function in the library, 0 when the library has none
LibraryIndex(functionCall) ==
  FirstIndex(FunctionLibrary, LAMBDA func :
    func.library = functionCall.library /\ func.functionName = functionCall.functionName)

\* result.rows.length
RowCount(res) == IF res.kind = "multi" THEN Len(res.groups) ELSE Len(res.rows)

\* the function-call block of the Run handler on a result: the enriched rows,
\* the columns it sets on the plan, and the number of result rows it ran on
FunctionBlock(sch, metaTypes, plan, res) ==
  LET k == LibraryIndex(plan.functionCall)
      runs == /\ plan.functionCall # NoFunctionCall /\ RowCount(res) > 0
              /\ res.usedSources # <<>> /\ k # 0
      column == resultColumnName(plan.functionCall.functionName)
      enrichedRows == [i \in 1..Len(res.rows) |-> WithColumn(res.rows[i], column, DerivedV)]
      enrichedGroups ==
        [i \in 1..Len(res.groups) |->
           [res.groups[i] EXCEPT
              !.vals = WithColumn(@, column, DerivedV),
              !._subRows = [j \in 1..Len(@) |->
                              [row |-> WithColumn(@[j].row, column, DerivedV),
                               _sourceId |-> @[j]._sourceId]]]]
  IN IF ~runs THEN [result |-> res, plan |-> plan, rows |-> 0]
     ELSE
       The({ The({
         [result |-> [res EXCEPT !.rows = enrichedRows, !.groups = enrichedGroups,
                                 !.uniqueId = uniqueId],
          plan |-> [plan EXCEPT
                      \* functionColumns
                      !.columns = (IF Truthy(uniqueId) THEN <<uniqueId>> ELSE <<>>)
                                    \o [i \in 1..Len(mappedParams) |-> fieldMapping[mappedParams[i]]]
                                    \o <<column>>,
                      !.hasColumns = TRUE,
                      !.uniqueId = uniqueId],
          rows |-> RowCount(res)]
         : mappedParams \in {SelectSeq(functionInfo.params,
                                       LAMBDA param : param \in DOMAIN fieldMapping)} })
         : functionInfo \in {FunctionLibrary[k]},
           fieldMapping \in {mapFunctionParameters(sch, metaTypes, res.usedSources[1].sourceId,
                                                   FunctionLibrary[k])},
           uniqueId \in {IF Truthy(res.uniqueId) THEN res.uniqueId
                         ELSE IF Truthy(plan.uniqueId) THEN plan.uniqueId
                         ELSE findUniqueIdentifierField(sch, res.usedSources)} })

-----------------------------------------------------------------------------
\* Statistics on result rows (statistical.js, app.js)

\* the value of a field in a result row
ResultCell(res, i, field) ==
  IF res.kind = "multi"
  THEN (IF field \in DOMAIN res.groups[i].vals THEN res.groups[i].vals[field] ELSE UndefV)
  ELSE Cell(res.rows[i], field)

\* v != null && !isNaN(v)
IsValidNumber(v) ==
  CASE v.k = "num" -> TRUE
    [] v.k = "str" -> ~JSNumber(trim(v.s)).nan
    [] OTHER -> FALSE

\* the field the statistics block reads: the field the concept mapper gives
\* the statistical field in the first used source, else a field whose name or
\* id contains it, else the statistical field itself
statisticalFieldName(sch, metaTypes, plan, res) ==
  LET sourceId == res.usedSources[1].sourceId
      tempCondition == Cond(plan.statisticalField, "", 0, 0, 0, "number")
      directMatch == FindFieldId(sch[sourceId], LAMBDA f :
                       \/ includes(toLowerCase(f.name), toLowerCase(plan.statisticalField))
                       \/ includes(toLowerCase(f.id), toLowerCase(plan.statisticalField)))
  IN IF res.usedSources = <<>> \/ ~HasSchema(sch, sourceId) THEN plan.statisticalField
     ELSE The({ IF Truthy(mapped[1].field) THEN mapped[1].field
                ELSE The({ IF Truthy(match) THEN match ELSE plan.statisticalField
                           : match \in {directMatch} })
                : mapped \in {mapConceptsToFields(sch, metaTypes, sourceId, <<tempCondition>>)} })

\* applyStatisticalOperation(rows, fieldName, operation) != null: there are
\* rows, and the operation is sum or count or some value is a valid number
StatisticExists(res, fieldName, operation) ==
  /\ RowCount(res) > 0
  /\ operation \in SeqToSet(STATISTICAL_OPERATIONS)
  /\ \/ operation \in {<<"s","u","m">>, <<"c","o","u","n","t">>}
     \/ \E i \in 1..RowCount(res) : IsValidNumber(ResultCell(res, i, fieldName))

-----------------------------------------------------------------------------
\* The Run button (app.js)

MaxRuns == 1

\* the files and the prompts of a session with the Run button
RunFiles == {
  File(<<"l","o","a","n","s",".","c","s","v">>, LoanHeaders, SubSeq(LoanRows, 1, 2)),
  File(<<"c","h","e","c","k","i","n","g",".","c","s","v">>, CheckingHeaders, SubSeq(CheckingRows, 1, 2)) }

RunPrompts == {
  <<>>,
  <<"c","a","l","c","u","l","a","t","e"," ","a","v","e","r","a","g","e"," ","p","r","i","n","c","i","p","a","l"," ","o","f"," ","l","o","a","n","s">>,
  <<"m","e","a","n"," ","o","f"," ","l","o","a","n"," ","p","r","i","n","c","i","p","a","l">>,
  <<"m","e","a","n"," ","o","f"," ","l","o","a","n"," ","r","a","t","e","s">>,
  <<"l","o","a","n","s"," ","t","y","p","e"," ","3">>,
  <<"l","o","a","n","s"," ","a","n","d"," ","c","h","e","c","k","i","n","g"," ","o","v","e","r"," ","1","0","0">> }

\* if (!validation.isValid): the handler alerts and returns
Refused_Never(validation) == FALSE
Refused(validation) == ~validation.isValid

\* if (validation.confidence < 0.8): the handler asks before it goes on
NeedsConfirmation(validation) == validation.confidence < 8

\* the columns of a multi-source plan: the unique id, the first field each
\* condition maps to in the sources of the target entities, the valuation
\* field of each of these sources
PrepareMultiSource(sch, metaTypes, plan, meta) ==
  The({
    LET valuationFields ==
          Dedup(Flatten([i \in 1..Len(matched) |-> identifyValuationFields(sch, <<matched[i]>>)]), {})
        \* the fields the condition maps to in the matched sources, in their order
        FieldsIn(condition) ==
          [s \in 1..Len(matched) |->
             mapConceptsToFields(sch, metaTypes, matched[s].sourceId, <<condition>>)[1].field]
        FirstField(condition) ==
          The({ The({ IF hit = 0 THEN <<>> ELSE <<found[hit]>>
                      : hit \in {FirstIndex(found, Truthy)} })
                : found \in {<<>> \o FieldsIn(condition)} })
        conditionFields ==
          Dedup(Flatten([i \in 1..Len(plan.conditions) |-> FirstField(plan.conditions[i])]), {})
    IN [plan EXCEPT !.uniqueId = uniqueId, !.hasColumns = TRUE,
                    !.columns = Dedup(<<uniqueId>>
                                        \o SelectSeq(conditionFields, LAMBDA f : f # uniqueId)
                                        \o SelectSeq(valuationFields, LAMBDA f : f # uniqueId), {})]
    : uniqueId \in {findUniqueIdentifierField(sch, meta)},
      matched \in {sourcesToQuery(plan, meta)} })

\* the plan the handler passes to executeQueryPlan
PreparePlan(sch, metaTypes, plan, meta) ==
  IF Len(plan.targetEntities) > 1 THEN PrepareMultiSource(sch, metaTypes, plan, meta)
  ELSE IF plan.targetEntities # <<>> /\ meta # <<>>
       THEN LET source == pickSourceForEntity(plan.targetEntities[1], meta)
            IN IF source = NoSource THEN plan
               ELSE [plan EXCEPT !.conditions =
                       mapConceptsToFields(sch, metaTypes, source.sourceId, @)]
  ELSE plan

\* the result as the handler holds it after executeQueryPlan: a result with
\* rows and no unique id takes the plan's, else the one of its sources
WithUniqueId(sch, plan, res) ==
  IF RowCount(res) > 0 /\ ~Truthy(res.uniqueId)
  THEN [res EXCEPT !.uniqueId = IF Truthy(plan.uniqueId) THEN plan.uniqueId
                                ELSE findUniqueIdentifierField(sch, res.usedSources)]
  ELSE res

\* a click on Run: the prompt is parsed and the plan validated
RunClick(prompt) ==
  /\ Quiescent
  /\ parsed.calls < MaxRuns
  /\ \E r \in {parsePrompt(prompt, Session(sessionLearnings, sessionQueryHistory))} :
        /\ parsed' = [calls |-> parsed.calls + 1, text |-> prompt, plan |-> r.plan]
        /\ sessionLearnings' = r.sess.learnings
        /\ sessionQueryHistory' = r.sess.history
        /\ run' = [Idle EXCEPT
                     !.pc = "validated", !.plan = r.plan,
                     !.validation = validateQueryPlan(schemas, MetaTypes(translators),
                                                      r.plan, sourcesMeta)]
  /\ UNCHANGED <<libraryVars, storeVars, clock, sourcesMeta, result, translators>>

\* the plan is not valid: the handler alerts and returns
AlertInvalid ==
  /\ run.pc = "validated"
  /\ Refused(run.validation)
  /\ run' = [run EXCEPT !.pc = "idle"]
  /\ UNCHANGED <<libraryVars, storeVars, clock, sourcesMeta, result, translators, nlpVars>>

\* the plan is valid with a low confidence: the user answers the question,
\* and the handler returns when the answer is no
Confirm(proceed) ==
  /\ run.pc = "validated"
  /\ ~Refused(run.validation)
  /\ NeedsConfirmation(run.validation)
  /\ run' = [run EXCEPT !.pc = IF proceed THEN "confirmed" ELSE "idle", !.proceed = proceed]
  /\ UNCHANGED <<libraryVars, storeVars, clock, sourcesMeta, result, translators, nlpVars>>

\* the handler prepares the plan and calls executeQueryPlan
ExecutePlan ==
  /\ \/ run.pc = "confirmed"
     \/ run.pc = "validated" /\ ~Refused(run.validation) /\ ~NeedsConfirmation(run.validation)
  /\ \E planCopy \in {PreparePlan(schemas, MetaTypes(translators), run.plan, sourcesMeta)} :
        /\ result' = WithUniqueId(schemas, planCopy,
                       executeQueryPlan(schemas, rows, MetaTypes(translators), planCopy,
                                        sourcesMeta))
        /\ run' = [run EXCEPT !.pc = "executed", !.plan = planCopy, !.executed = @ + 1]
  /\ UNCHANGED <<libraryVars, storeVars, clock, sourcesMeta, translators, nlpVars>>

\* the function-call block: the function of the plan runs on every result row
CallFunction ==
  /\ run.pc = "executed"
  /\ \E block \in {FunctionBlock(schemas, MetaTypes(translators), run.plan, result)} :
        /\ result' = block.result
        /\ run' = [run EXCEPT !.pc = "function", !.plan = block.plan,
                              !.functionRows = block.rows]
  /\ UNCHANGED <<libraryVars, storeVars, clock, sourcesMeta, translators, nlpVars>>

\* the statistics block and the rendering: a statistic that exists is shown
\* in place of the rows, and the handler returns
FinishRun ==
  /\ run.pc = "function"
  /\ LET applies == run.plan.statisticalOp # <<>> /\ run.plan.statisticalField # <<>>
         fieldName == statisticalFieldName(schemas, MetaTypes(translators), run.plan, result)
         shown == applies /\ StatisticExists(result, fieldName, run.plan.statisticalOp)
     IN run' = [run EXCEPT !.pc = "idle",
                           !.statistic = IF shown THEN "shown"
                                         ELSE IF applies THEN "null" ELSE "none"]
  /\ result' = NoResult
  /\ UNCHANGED <<libraryVars, storeVars, clock, sourcesMeta, translators, nlpVars>>

NextRun ==
  \/ \E file \in RunFiles : ImportFiles(<<file>>, <<clock>>)
  \/ \E prompt \in RunPrompts : RunClick(prompt)
  \/ AlertInvalid
  \/ \E proceed \in BOOLEAN : Confirm(proceed)
  \/ ExecutePlan
  \/ CallFunction
  \/ FinishRun

SpecRun == Init /\ [][NextRun]_vars

-----------------------------------------------------------------------------
\* Properties of the Run button

\* C3: within a submission, the query is executed, a function called or a
\* statistic applied only after validateQueryPlan returned isValid = true for
\* the submission's plan and, when the confidence is below 0.8, the user agreed.
ExecutionOnlyAfterValidation ==
  (run.pc \in {"confirmed", "executed", "function"}
     \/ run.executed > 0 \/ run.functionRows > 0 \/ run.statistic # "none"
     \/ result # NoResult) =>
    /\ run.validation.isValid
    /\ (run.validation.confidence < 8 => run.proceed)

\* a refused submission and a declined one have ended without any execution
RefusedRunWitness ==
  /\ run.pc = "idle" /\ parsed.calls > 0
  /\ ~run.validation.isValid
  /\ run.executed = 0 /\ run.functionRows = 0 /\ run.statistic = "none"
  /\ sources # <<>>

-----------------------------------------------------------------------------
\* Properties of importFiles

\* the plans of a session of imports
ImportPlans == {
  Plan(<<S_loans>>, <<C_under1000>>, "AND"),
  Plan(<<S_loans, S_checking>>, <<>>, "AND"),
  Plan(<<S_loans, S_checking>>, <<C_branch4>>, "AND") }

\* the plans handed to validateQueryPlan: sound ones and ones with violations
\* of several categories
ValidationPlans == {
  Plan(<<S_loans>>, <<C_branch4>>, "AND"),
  Plan(<<S_loans, S_checking>>, <<C_status, C_under1000>>, "AND"),
  [Plan(<<>>, <<>>, "AND") EXCEPT !.intent = NullIntent],
  [Plan(<<<<"t","r","u","c","k","s">>>>, <<>>, "AND") EXCEPT !.statisticalOp = <<"m","o","d","e">>,
                                          !.functionCall = FunctionCall(1)],
  Plan(<<S_checking>>,
       << [Cond(UNDEF, "", 0, 0, 0, "text") EXCEPT !.field = S_Balance], C_between >>, "OR") }

\* a call of validateQueryPlan(plan, sourcesMeta) outside a submission
ValidatePlan(plan) ==
  /\ Quiescent
  /\ run' = [run EXCEPT !.validation =
                validateQueryPlan(schemas, MetaTypes(translators), plan, sourcesMeta)]
  /\ UNCHANGED <<libraryVars, storeVars, clock, sourcesMeta, result, translators, nlpVars>>

NextImport ==
  \/ \E fileList \in FileLists : \E instants \in Instants(Len(fileList), clock) :
        ImportFiles(fileList, instants)
  \/ \E i \in 1..Len(sources) : DeleteSource(sources[i].sourceId)
  \/ \E queryPlan \in ImportPlans : ExecuteQueryPlan(queryPlan)
  \/ ReturnResult

SpecImport == Init /\ [][NextImport]_vars

\* the sources a store holds under the ids of the stored sources
Stored(srcs, sch, rws, i) ==
  [meta |-> srcs[i],
   schema |-> sch[srcs[i].sourceId],
   rows |-> getAllRows(rws, srcs[i].sourceId)]

\* C11: any two sources created by importFiles receive different sourceIds: a
\* call of importFiles adds one source per file and leaves the metadata, the
\* schema and the rows of every source stored before as they were.
ImportNeverReusesSourceId ==
  [][\A fileList \in FileLists : \A instants \in Instants(Len(fileList), clock) :
       ImportFiles(fileList, instants) =>
         /\ Len(sources') = Len(sources) + Len(fileList)
         /\ \A i \in 1..Len(sources) :
              Stored(sources', schemas', rows', i) = Stored(sources, schemas, rows, i)]_vars

-----------------------------------------------------------------------------
\* The translator registry (translator_loader.js, importFiles)

Entry(k, v) == [k |-> k, v |-> v]

\* the types registerTranslator is called with; the empty type is falsy
TranslatorTypes == { <<>>, <<"b","r","a","n","c","h","e","s">>, <<"o","f","f","i","c","e","r">> }

\* the maps registerTranslator is called with, as their entries in insertion order
TranslatorMaps == {
  << Entry(<<"L","a","k","e","s","i","d","e">>, 4) >>,
  << Entry(<<"L","a","k","e","s","i","d","e">>, 4), Entry(<<"l","a","k","e","s","i","d","e">>, 5) >>,
  << Entry(<<"l","a","k","e","s","i","d","e">>, 5), Entry(<<"B","r","o","o","k","s","i","d","e">>, 7) >> }

TranslatorHeaders == << Hdr(<<"b","r","a","n","c","h","_","n","u","m","b","e","r">>, "integer"), Hdr(<<"b","r","a","n","c","h","_","n","a","m","e">>, "string") >>

TranslatorRow(number, name) == (<<"b","r","a","n","c","h","_","n","u","m","b","e","r">> :> number) @@ (<<"b","r","a","n","c","h","_","n","a","m","e">> :> name)

\* the files of a branch number / branch name dataset
TranslatorFiles == {
  File(<<"b","r","a","n","c","h","e","s",".","c","s","v">>, TranslatorHeaders,
       << TranslatorRow(StrV(<<"4">>), StrV(<<"L","a","k","e","s","i","d","e">>)),
          TranslatorRow(StrV(<<"7">>), StrV(<<" ","B","r","o","o","k","s","i","d","e">>)) >>),
  File(<<"b","r","a","n","c","h","e","s",".","c","s","v">>, TranslatorHeaders,
       << TranslatorRow(StrV(<<"9">>), StrV(<<"M","e","a","d","o","w","v","a","l","e">>)),
          TranslatorRow(StrV(<<"n","/","a">>), StrV(<<"C","l","o","s","e","d">>)) >>) }

\* a call of registerTranslator(type, map) from a script of the page
RegisterTranslator(type, entries) ==
  /\ Quiescent
  /\ translators' = registerTranslator(translators, type, entries)
  /\ UNCHANGED <<libraryVars, storeVars, clock, sourcesMeta, result, run, nlpVars>>

NextTranslators ==
  \/ \E type \in TranslatorTypes, entries \in TranslatorMaps : RegisterTranslator(type, entries)
  \/ \E file \in TranslatorFiles : ImportFiles(<<file>>, <<clock>>)
  \/ \E i \in 1..Len(sources) : DeleteSource(sources[i].sourceId)

SpecTranslators == Init /\ [][NextTranslators]_vars

\* translators[type][key] = code
Resolves(registry, type, key, code) ==
  /\ type \in DOMAIN registry
  /\ key \in DOMAIN registry[type]
  /\ registry[type][key] = code

\* C12 as stated: after registerTranslator(type, map), every key of the map and
\* its lowercased form resolve, for that type, to the code registered for the key.
RegisteredKeysResolveInBothCases ==
  [][\A type \in TranslatorTypes, entries \in TranslatorMaps :
       RegisterTranslator(type, entries) =>
         \A i \in 1..Len(entries) :
            /\ Resolves(translators', type, entries[i].k, entries[i].v)
            /\ Resolves(translators', type, toLowerCase(entries[i].k), entries[i].v)]_vars

\* no two keys of the map differ only by case
CaseDistinct(entries) ==
  \A i, j \in 1..Len(entries) :
     toLowerCase(entries[i].k) = toLowerCase(entries[j].k) => i = j

\* C12 amended: after registerTranslator(type, map) with a non-empty type and a
\* map no two keys of which differ only by case, every key of the map and its
\* lowercased form resolve, for that type, to the code registered for the key.
CaseDistinctKeysResolveInBothCases ==
  [][\A type \in TranslatorTypes \ {<<>>}, entries \in TranslatorMaps :
       (CaseDistinct(entries) /\ RegisterTranslator(type, entries)) =>
         \A i \in 1..Len(entries) :
            /\ Resolves(translators', type, entries[i].k, entries[i].v)
            /\ Resolves(translators', type, toLowerCase(entries[i].k), entries[i].v)]_vars

\* a map with the key Brookside has been registered for the officers: the key
\* resolves as given and lowercased
BothCasesWitness ==
  /\ Resolves(translators, <<"o","f","f","i","c","e","r">>, <<"B","r","o","o","k","s","i","d","e">>, 7)
  /\ Resolves(translators, <<"o","f","f","i","c","e","r">>, <<"b","r","o","o","k","s","i","d","e">>, 7)

\* a stored source holds a row with the branch name Lakeside
LakesideImported ==
  \E i \in 1..Len(sources) :
     \E r \in 1..Len(getAllRows(rows, sources[i].sourceId)) :
        Cell(getAllRows(rows, sources[i].sourceId)[r], <<"b","r","a","n","c","h","_","n","a","m","e">>) = StrV(<<"L","a","k","e","s","i","d","e">>)

\* C13: after the import of a branch number / branch name dataset that holds
\* the name Lakeside with code 4, both Lakeside and lakeside are keys of the
\* translator registered for the branches.
ImportedNameResolvesInBothCases ==
  LakesideImported =>
    /\ <<"b","r","a","n","c","h","e","s">> \in DOMAIN translators
    /\ {<<"L","a","k","e","s","i","d","e">>, <<"l","a","k","e","s","i","d","e">>} \subseteq DOMAIN translators[<<"b","r","a","n","c","h","e","s">>]

\* every type and key of the registry before a step is one after it
RegistryGrows ==
  \A type \in DOMAIN translators :
     /\ type \in DOMAIN translators'
     /\ DOMAIN translators[type] \subseteq DOMAIN translators'[type]

\* registering a map a second time changes nothing
RegisterIdempotent ==
  \A type \in TranslatorTypes, entries \in TranslatorMaps :
     registerTranslator(registerTranslator(translators, type, entries), type, entries)
       = registerTranslator(translators, type, entries)

\* C14: the translator registry only grows: no call of registerTranslator, no
\* import and no deletion of a source removes a type or a key that resolved
\* before, and registering the same map again leaves the registry unchanged.
RegistryOnlyGrows == [][RegistryGrows]_vars /\ []RegisterIdempotent

\* the translator of the branches holds keys of two registrations: one from an
\* imported dataset and one from a registered map, after the dataset was deleted
MergedRegistryWitness ==
  /\ <<"b","r","a","n","c","h","e","s">> \in DOMAIN translators
  /\ {<<"m","e","a","d","o","w","v","a","l","e">>, <<"L","a","k","e","s","i","d","e">>, <<"B","r","o","o","k","s","i","d","e">>} \subseteq DOMAIN translators[<<"b","r","a","n","c","h","e","s">>]
  /\ sources = <<>>

-----------------------------------------------------------------------------
\* Properties of the valuation fields

\* C15: in a multi-source execution the valuation fields are the highest
\* scoring fields, one per source, of exactly the sources that are queried.
ValuationFieldsOfQueriedSources ==
  result.kind = "multi" =>
    SeqToSet(result.valuationFields)
      = UNION { SeqToSet(identifyValuationFields(schemas, <<result.usedSources[i]>>))
                : i \in 1..Len(result.usedSources) }

-----------------------------------------------------------------------------
\* Properties of the plan of a prompt

\* the plan carries a condition on the branch
HasBranchCondition ==
  \E i \in 1..Len(parsed.plan.conditions) : parsed.plan.conditions[i].concept = <<"b","r","a","n","c","h">>

\* C16: a prompt with a numeric branch condition ("in branch 4") yields a plan
\* with the branch condition; branches is a target entity of a plan with a
\* branch condition only as the only one, when no other entity was found.
BranchFilterIsNoEntity ==
  /\ FirstMatch(toLowerCase(trim(parsed.text)), 1, InBranchAt).ok => HasBranchCondition
  /\ (HasBranchCondition /\ <<"b","r","a","n","c","h","e","s">> \in SeqToSet(parsed.plan.targetEntities))
        => parsed.plan.targetEntities = << <<"b","r","a","n","c","h","e","s">> >>

\* a prompt naming loans in a branch was parsed: the loans are the only target
BranchFilterWitness ==
  /\ parsed.text = <<"l","o","a","n","s"," ","i","n"," ","b","r","a","n","c","h"," ","4">>
  /\ HasBranchCondition
  /\ parsed.plan.targetEntities = << <<"l","o","a","n","s">> >>

\* a prompt with a branch condition and no entity: the branches are the target
BranchFallbackWitness ==
  /\ parsed.text = <<"i","n"," ","b","r","a","n","c","h"," ","4">>
  /\ HasBranchCondition
  /\ parsed.plan.targetEntities = << <<"b","r","a","n","c","h","e","s">> >>

\* C17: a plan parsePrompt returns with a function call has no statistical
\* operation and at most one target entity, so that the rule of the validator
\* against a statistical operation together with a function call never applies
\* to a parsed plan.
FunctionCallExcludesStatistic ==
  parsed.plan.functionCall # NoFunctionCall =>
    /\ parsed.plan.statisticalOp = <<>>
    /\ Len(parsed.plan.targetEntities) <= 1

\* a prompt asking to calculate was parsed into a plan with a function call
FunctionCallWitness ==
  /\ parsed.text = <<"c","a","l","c","u","l","a","t","e"," ","a","v","e","r","a","g","e"," ","p","r","i","n","c","i","p","a","l">>
  /\ parsed.plan.functionCall.functionName = <<"a","v","e","r","a","g","e","P","r","i","n","c","i","p","a","l">>
  /\ parsed.plan.statisticalOp = <<>>

-----------------------------------------------------------------------------
\* Properties of validateQueryPlan

ConfidenceOnlyLowered ==
  /\ \A plan \in ValidationPlans :
        \E steps \in {validationSteps(schemas, MetaTypes(translators), plan, sourcesMeta)} :
           /\ steps[1].confidence = 10
           /\ \A k \in 1..(Len(steps) - 1) : steps[k + 1].confidence <= steps[k].confidence
           /\ steps[Len(steps)].confidence <= 8
  /\ run.validation.confidence <= 8

\* a plan with an unknown entity, an unknown statistical operation without
\* field and a function call was validated with sources imported: the verdict
\* is the lowest of the limits met
LoweredConfidenceWitness ==
  /\ sources # <<>>
  /\ run.validation = Validation(FALSE, 3)

\* the files imported in a session of validations
ValidationFiles == {
  File(<<"l","o","a","n","s",".","c","s","v">>, LoanHeaders, SubSeq(LoanRows, 1, 2)),
  File(<<"c","h","e","c","k","i","n","g",".","c","s","v">>, CheckingHeaders, SubSeq(CheckingRows, 1, 2)),
  File(<<"c","h","e","c","k","i","n","g",".","c","s","v">>, CheckingHeadersNoBranch, CheckingRowsNoBranch) }

\* a session of validations: files are imported, sources deleted and plans
\* validated against the sources of the moment
NextValidate ==
  \/ \E file \in ValidationFiles : ImportFiles(<<file>>, <<clock>>)
  \/ \E i \in 1..Len(sources) : DeleteSource(sources[i].sourceId)
  \/ \E plan \in ValidationPlans : ValidatePlan(plan)

SpecValidate == Init /\ [][NextValidate]_vars

-----------------------------------------------------------------------------
(* The concept mapper in multi-source queries (unnamed/part_000)           *)

\* a condition resolved through the officer translator: the name was replaced
\* by the officer's id and the translator is remembered
C_officer ==
  [Cond(S_officer, "=", 92, 0, 0, "number") EXCEPT !.translated = TRUE,
                                                   !.translationSource = <<"o","f","f","i","c","e","r","s">>]

\* the files imported in a session of mapped queries: loans with an officer
\* column, checking accounts, and an officer id / officer name dataset
MapperFiles == {
  File(<<"l","o","a","n","s",".","c","s","v">>, <<Hdr(S_Portfolio, "string"), Hdr(<<"O","f","f","i","c","e","r">>, "integer")>>,
       << Row2(P1, <<<<"O","f","f","i","c","e","r">>, StrV(<<"9","2">>)>>), Row2(P2, <<<<"O","f","f","i","c","e","r">>, StrV(<<"1","7">>)>>) >>),
  File(<<"c","h","e","c","k","i","n","g",".","c","s","v">>, CheckingHeaders, SubSeq(CheckingRows, 1, 2)),
  File(<<"o","f","f","i","c","e","r","s",".","c","s","v">>, <<Hdr(<<"o","f","f","i","c","e","r","_","i","d">>, "integer"), Hdr(<<"o","f","f","i","c","e","r","_","n","a","m","e">>, "string")>>,
       << (<<"o","f","f","i","c","e","r","_","i","d">> :> StrV(<<"9","2">>)) @@ (<<"o","f","f","i","c","e","r","_","n","a","m","e">> :> StrV(<<"H","a","n","n","a","h"," ","M","a","r","t","i","n","e","z">>)) >>) }

\* the plans of a session of mapped queries
MapperPlans == {
  Plan(<<S_loans, S_checking>>, <<C_officer>>, "AND"),
  Plan(<<S_loans, S_checking>>, <<C_under1000, C_branch4>>, "OR"),
  Plan(<<S_loans, S_checking>>, <<C_branch4, C_officer>>, "OR"),
  Plan(<<S_checking, S_loans>>, <<C_status>>, "AND") }

\* a session of mapped queries: files are imported, sources deleted and
\* multi-source queries executed, each mapping the plan's conditions to the
\* fields of every source it queries
NextMapper ==
  \/ \E file \in MapperFiles : ImportFiles(<<file>>, <<clock>>)
  \/ \E i \in 1..Len(sources) : DeleteSource(sources[i].sourceId)
  \/ \E queryPlan \in MapperPlans : ExecuteQueryPlan(queryPlan)
  \/ ReturnResult

SpecMapper == Init /\ [][NextMapper]_vars

\* the condition mapped for a source got a field the plan's condition had not
FieldAdded(sourceResult, c) ==
  sourceResult.mapped[c].field # result.plan.conditions[c].field

\* C19: a field that mapConceptsToFields adds to a condition, a condition
\* resolved through a translator included, is the id of a field of the schema
\* of the source the conditions were mapped for.
AddedFieldIsSchemaFieldId ==
  \A i \in 1..Len(result.sourceResults) :
     \A c \in 1..Len(result.sourceResults[i].mapped) :
        FieldAdded(result.sourceResults[i], c) =>
           \E f \in 1..Len(schemas[result.sourceResults[i].source.sourceId]) :
              schemas[result.sourceResults[i].source.sourceId][f].id
                 = result.sourceResults[i].mapped[c].field

\* C20: the list mapConceptsToFields returns has the length and the order of
\* the conditions handed in, each returned condition equals its input condition
\* on every attribute but field, and the conditions handed in are as they
\* were: the plan of the query is still one of the plans submitted.
MappingKeepsConditions ==
  /\ result.sourceResults # <<>> => result.plan \in MapperPlans
  /\ \A i \in 1..Len(result.sourceResults) :
        /\ Len(result.sourceResults[i].mapped) = Len(result.plan.conditions)
        /\ \A c \in 1..Len(result.plan.conditions) :
              [result.sourceResults[i].mapped[c] EXCEPT !.field = result.plan.conditions[c].field]
                 = result.plan.conditions[c]

\* two different conditions were mapped for a source and both got a field
TwoConditionsMappedWitness ==
  \E i \in 1..Len(result.sourceResults) :
     /\ Len(result.sourceResults[i].mapped) = 2
     /\ result.plan.conditions[1] # result.plan.conditions[2]
     /\ FieldAdded(result.sourceResults[i], 1)
     /\ FieldAdded(result.sourceResults[i], 2)

-----------------------------------------------------------------------------
(* The statistics library (js/statistical.js)                              *)

NullV == [k |-> "null", s |-> <<>>, n |-> 0]

\* the value null returned by a statistic
JSNull == [k |-> "null", num |-> 0, den |-> 1]

RECURSIVE GCD(_, _)
GCD(a, b) == IF b = 0 THEN a ELSE GCD(b, a % b)

\* the number num / den, den > 0, in lowest terms
Quotient(num, den) ==
  The({ [k |-> "num", num |-> num \div g, den |-> den \div g]
        : g \in {GCD(IF num < 0 THEN 0 - num ELSE num, den)} })

\* Math.sqrt of a number that is not negative
Sqrt(q) == IF q.num = 0 THEN q ELSE [q EXCEPT !.k = "sqrt"]

\* values.filter(v => v != null && !isNaN(v)).map(v => Number(v))
validNumbers(values) ==
  The({ [i \in 1..Len(kept) |-> ToNumber(kept[i]).v]
        : kept \in {SelectSeq(values, IsValidNumber)} })

RECURSIVE SumOfSquares(_)
SumOfSquares(nums) ==
  IF nums = <<>> THEN 0 ELSE Head(nums) * Head(nums) + SumOfSquares(Tail(nums))

\* nums.sort((a, b) => a - b)
RECURSIVE SortAscending(_)
SortAscending(nums) ==
  IF nums = <<>> THEN <<>>
  ELSE The({ <<least>> \o SortAscending(SelectSeq(nums, LAMBDA v : v # least)
                                        \o SubSeq(SelectSeq(nums, LAMBDA v : v = least), 2,
                                                  Len(SelectSeq(nums, LAMBDA v : v = least))))
             : least \in {CHOOSE v \in SeqToSet(nums) : \A w \in SeqToSet(nums) : v <= w} })

mean(values) ==
  The({ IF nums = <<>> THEN JSNull ELSE Quotient(SumSeq(nums), Len(nums))
        : nums \in {validNumbers(values)} })

\* the mean of the squared differences from the mean:
\* (n * sum of squares - square of the sum) / n^2
variance(values) ==
  The({ IF nums = <<>> THEN JSNull
        ELSE IF Len(nums) = 1 THEN Quotient(0, 1)
        ELSE Quotient(Len(nums) * SumOfSquares(nums) - SumSeq(nums) * SumSeq(nums),
                      Len(nums) * Len(nums))
        : nums \in {validNumbers(values)} })

standardDeviation(values) ==
  The({ IF nums = <<>> THEN JSNull
        ELSE IF Len(nums) = 1 THEN Quotient(0, 1)
        ELSE Sqrt(variance([i \in 1..Len(nums) |-> NumV(nums[i])]))
        : nums \in {validNumbers(values)} })

median(values) ==
  The({ IF nums = <<>> THEN JSNull
        ELSE IF Len(nums) % 2 = 0
             THEN Quotient(nums[Len(nums) \div 2] + nums[(Len(nums) \div 2) + 1], 2)
             ELSE Quotient(nums[(Len(nums) \div 2) + 1], 1)
        : nums \in {SortAscending(validNumbers(values))} })

min(values) ==
  The({ IF nums = <<>> THEN JSNull
        ELSE Quotient(CHOOSE v \in SeqToSet(nums) : \A w \in SeqToSet(nums) : v <= w, 1)
        : nums \in {validNumbers(values)} })

max(values) ==
  The({ IF nums = <<>> THEN JSNull
        ELSE Quotient(CHOOSE v \in SeqToSet(nums) : \A w \in SeqToSet(nums) : v >= w, 1)
        : nums \in {validNumbers(values)} })

sum(values) == Quotient(SumSeq(validNumbers(values)), 1)

\* values.filter(v => v != null && v !== '').length
count(values) == Quotient(Len(SelectSeq(values, NonEmptyCell)), 1)

\* the keys of the frequency object in the order Object.entries lists them:
\* the keys that are array indices in ascending order, then the other keys in
\* the order of their insertion
FrequencyKeys(nums) ==
  SortAscending(Unique(SelectSeq(nums, LAMBDA v : v >= 0)))
    \o Unique(SelectSeq(nums, LAMBDA v : v < 0))

\* the loop of mode over the entries of the frequency object
RECURSIVE ModeScan(_, _, _, _, _)
ModeScan(keys, nums, k, best, maxCount) ==
  IF k > Len(keys) THEN best
  ELSE The({ IF frequency > maxCount
             THEN ModeScan(keys, nums, k + 1, Quotient(keys[k], 1), frequency)
             ELSE ModeScan(keys, nums, k + 1, best, maxCount)
             : frequency \in {Len(SelectSeq(nums, LAMBDA v : v = keys[k]))} })

mode(values) ==
  The({ IF nums = <<>> THEN JSNull
        ELSE ModeScan(FrequencyKeys(nums), nums, 1, JSNull, 0)
        : nums \in {validNumbers(values)} })

\* the functions of window.Statistical that compute a statistic
Statistics == {"mean", "standardDeviation", "median", "min", "max", "mode", "sum",
               "count", "variance"}

\* window.Statistical[fn](values)
Statistic(fn, values) ==
  CASE fn = "mean" -> mean(values)
    [] fn = "standardDeviation" -> standardDeviation(values)
    [] fn = "median" -> median(values)
    [] fn = "min" -> min(values)
    [] fn = "max" -> max(values)
    [] fn = "mode" -> mode(values)
    [] fn = "sum" -> sum(values)
    [] fn = "count" -> count(values)
    [] fn = "variance" -> variance(values)

MaxValues == 4 \* the longest list of values handed to a statistic

\* the entries of the lists: numbers, null, the empty string and a text
StatisticValues == { NumV(3), NumV(1), NullV, StrV(<<>>), StrV(<<"a","b","c">>) }

ValueLists == UNION { [1..n -> StatisticValues] : n \in 0..MaxValues }

\* the statistic called returns its value
ReturnStatistic ==
  /\ call.fn \in Statistics
  /\ call.returned = Pending
  /\ call' = [call EXCEPT !.returned = Statistic(call.fn, call.args[1])]
  /\ UNCHANGED <<pageVars, registeredLibraries, cachedKeywordEntries>>

NextStatistics == ReturnStatistic

\* one of the statistics is called with a list of values
InitStatistics ==
  /\ InitPage
  /\ \E fn \in Statistics, values \in ValueLists : call = Called(fn, <<values>>)

SpecStatistics == InitStatistics /\ [][NextStatistics]_vars

\* the list holds no valid value: it is empty or holds only null, empty
\* strings and texts that are no numbers
NoValidValue(values) ==
  \A i \in 1..Len(values) :
     \/ values[i].k \in {"null", "undef"}
     \/ values[i].k = "str" /\ (values[i].s = <<>> \/ JSNumber(trim(values[i].s)).nan)

\* C21: each of the statistics mean, standardDeviation, median, min, max,
\* mode, sum, count and variance returns null for a list without valid value.
StatisticOfNoValidValueIsNull ==
  (call.fn \in Statistics /\ call.returned # Pending /\ NoValidValue(call.args[1]))
     => call.returned = JSNull

\* the first number of the list whose frequency in the list is the highest
FirstMostFrequent(nums) ==
  nums[CHOOSE i \in 1..Len(nums) :
         /\ \A j \in 1..Len(nums) :
               Len(SelectSeq(nums, LAMBDA v : v = nums[j]))
                  <= Len(SelectSeq(nums, LAMBDA v : v = nums[i]))
         /\ \A j \in 1..(i - 1) :
               Len(SelectSeq(nums, LAMBDA v : v = nums[j]))
                  < Len(SelectSeq(nums, LAMBDA v : v = nums[i]))]

\* C22: mode returns the first value, in the order of the list, of the
\* highest frequency among the values its filter keeps, and null when the
\* filter keeps none.
ModeIsFirstMostFrequent ==
  (call.fn = "mode" /\ call.returned # Pending) =>
     call.returned = IF validNumbers(call.args[1]) = <<>> THEN JSNull
                     ELSE Quotient(FirstMostFrequent(validNumbers(call.args[1])), 1)

-----------------------------------------------------------------------------
(* The sample prompts and the statistical operations of the parser         *)

\* the prompts of a session with the sample prompts: a range written with
\* from and to, a misspelt entity, conditions that teach the session a
\* concept, and every statistical operation of the parser followed by of
SamplePrompts ==
  { <<"f","i","n","d"," ","c","h","e","c","k","i","n","g"," ","a","c","c","o","u","n","t","s"," ","w","i","t","h"," ","b","a","l","a","n","c","e"," ","f","r","o","m"," ","$","5","0","0"," ","t","o"," ","$","5",",","0","0","0">>,
    <<"s","h","o","w"," ","c","u","s","t","m","e","r","s">>,
    <<"s","h","o","w"," ","l","o","a","n","s"," ","o","v","e","r"," ","$","5",",","0","0","0"," ","i","n"," ","b","r","a","n","c","h"," ","4">>,
    <<"f","i","n","d"," ","c","h","e","c","k","i","n","g"," ","a","c","c","o","u","n","t","s"," ","u","n","d","e","r"," ","1","0","0">> }
  \cup { STATISTICAL_OPERATIONS[k] \o <<" ","o","f"," ","l","o","a","n"," ","r","a","t","e","s">> : k \in 1..Len(STATISTICAL_OPERATIONS) }

NextSamples == \E prompt \in SamplePrompts : ParsePrompt(prompt)

SpecSamples == Init /\ [][NextSamples]_vars

\* C23: parsing "find checking accounts with balance from $500 to $5,000"
\* yields exactly one condition, of op between with valueMin 500 and valueMax
\* 5000.
FromToIsOneBetweenCondition ==
  parsed.text = <<"f","i","n","d"," ","c","h","e","c","k","i","n","g"," ","a","c","c","o","u","n","t","s"," ","w","i","t","h"," ","b","a","l","a","n","c","e"," ","f","r","o","m"," ","$","5","0","0"," ","t","o"," ","$","5",",","0","0","0">> =>
     /\ Len(parsed.plan.conditions) = 1
     /\ parsed.plan.conditions[1].op = "between"
     /\ parsed.plan.conditions[1].valueMin = Num(500)
     /\ parsed.plan.conditions[1].valueMax = Num(5000)

\* the word of a prompt is no entity word but is near the entity word: at
\* most two edits away, with (maxLength - distance) / maxLength >= 0.8
NearEntityWord(word, entityWord) ==
  /\ ~(word \in SeqToSet(ENTITY_WORDS))
  /\ \E distance \in {levenshteinDistance(word, entityWord)},
        maxLength \in {IF Len(word) > Len(entityWord) THEN Len(word) ELSE Len(entityWord)} :
        /\ distance <= FUZZY_MAX_DISTANCE
        /\ (maxLength - distance) * FUZZY_MATCH_THRESHOLD.den
              >= FUZZY_MATCH_THRESHOLD.num * maxLength

\* C25: a word of the prompt, split on whitespace, that is no entity word but
\* lies within edit distance 2 and similarity 0.8 of an entity word, such as
\* custmers for customers, adds the entity's canonical form to targetEntities.
NearEntityWordAddsEntity ==
  \A i \in 1..Len(SplitOnSpaces(toLowerCase(parsed.text))) :
     \A k \in 1..Len(ENTITY_WORDS) :
        NearEntityWord(SplitOnSpaces(toLowerCase(parsed.text))[i], ENTITY_WORDS[k]) =>
           normalizeEntity(ENTITY_WORDS[k]) \in SeqToSet(parsed.plan.targetEntities)

\* C29: a statistical operation that parsePrompt puts into a plan passes the
\* statistical-operation check of validateQueryPlan: it includes one of the
\* valid statistics.
ParsedStatisticIsValid ==
  parsed.plan.statisticalOp # <<>> =>
     \E k \in 1..Len(validStats) :
        includes(toLowerCase(parsed.plan.statisticalOp), validStats[k])

-----------------------------------------------------------------------------
(* Submissions that call a library function (unnamed/part_005)             *)

\* a loans file with the fields the function averagePrincipal reads
LoanTermsFile ==
  File(<<"l","o","a","n","s",".","c","s","v">>,
       <<Hdr(S_Portfolio, "string"), Hdr(S_Principal, "currency"), Hdr(<<"R","a","t","e">>, "number"),
         Hdr(<<"M","a","t","u","r","i","t","y">>, "date")>>,
       << (S_Portfolio :> P1) @@ (S_Principal :> StrV(<<"5","0","0","0">>)) @@ (<<"R","a","t","e">> :> StrV(<<"5">>))
             @@ (<<"M","a","t","u","r","i","t","y">> :> StrV(<<"2","0","3","0","-","0","1","-","0","1">>)),
          (S_Portfolio :> P2) @@ (S_Principal :> StrV(<<"1","0","0">>)) @@ (<<"R","a","t","e">> :> StrV(<<"4">>))
             @@ (<<"M","a","t","u","r","i","t","y">> :> StrV(<<"2","0","3","1","-","0","6","-","3","0">>)) >>)

FunctionRunFiles == { LoanTermsFile, File(<<"c","h","e","c","k","i","n","g",".","c","s","v">>, CheckingHeaders, SubSeq(CheckingRows, 1, 2)) }

\* the prompts of a session that calls library functions
FunctionRunPrompts == {
  <<"c","a","l","c","u","l","a","t","e"," ","a","v","e","r","a","g","e"," ","p","r","i","n","c","i","p","a","l">>,
  <<"c","a","l","c","u","l","a","t","e"," ","a","v","e","r","a","g","e"," ","p","r","i","n","c","i","p","a","l"," ","o","f"," ","l","o","a","n","s">>,
  <<"l","o","a","n","s"," ","t","y","p","e"," ","3">>,
  <<"s","h","o","w"," ","c","h","e","c","k","i","n","g">> }

\* a session with the Run button in which library functions are called
NextFunctionRun ==
  \/ \E file \in FunctionRunFiles : ImportFiles(<<file>>, <<clock>>)
  \/ \E prompt \in FunctionRunPrompts : RunClick(prompt)
  \/ AlertInvalid
  \/ \E proceed \in BOOLEAN : Confirm(proceed)
  \/ ExecutePlan
  \/ CallFunction
  \/ FinishRun

SpecFunctionRun == Init /\ [][NextFunctionRun]_vars

\* the only source is the loans file with Principal, Rate and Maturity
OnlyLoanTerms ==
  /\ Len(sourcesMeta) = 1
  /\ schemas[sourcesMeta[1].sourceId] = FieldsOf(LoanTermsFile)

\* C24: a submission of "calculate average principal" with a single loans
\* source that has Principal, Rate and Maturity does not return before it has
\* run averagePrincipal on every row of the result, with the parameters mapped
\* to the fields Principal, Rate and Maturity and the derived column among the
\* columns.
AveragePrincipalRunsOnLoans ==
  [][(/\ parsed.text = <<"c","a","l","c","u","l","a","t","e"," ","a","v","e","r","a","g","e"," ","p","r","i","n","c","i","p","a","l">>
      /\ OnlyLoanTerms
      /\ run.pc # "idle"
      /\ run'.pc = "idle")
     => (/\ run.plan.functionCall.functionName = <<"a","v","e","r","a","g","e","P","r","i","n","c","i","p","a","l">>
         /\ run.functionRows = Len(LoanTermsFile.rows)
         /\ {S_Principal, <<"R","a","t","e">>, <<"M","a","t","u","r","i","t","y">>, resultColumnName(<<"a","v","e","r","a","g","e","P","r","i","n","c","i","p","a","l">>)}
               \subseteq SeqToSet(run.plan.columns))]_vars

-----------------------------------------------------------------------------
(* The financial library (js/library/financial.js)                         *)

\* the number NaN returned by a library function
NotNumber == [k |-> "nan", num |-> 0, den |-> 1]

Zero == Quotient(0, 1)

\* arithmetic on numbers: a fraction in lowest terms, or NaN as soon as an
\* operand is NaN
Plus(a, b) ==
  IF a.k = "nan" \/ b.k = "nan" THEN NotNumber
  ELSE Quotient(a.num * b.den + b.num * a.den, a.den * b.den)

Minus(a, b) ==
  IF a.k = "nan" \/ b.k = "nan" THEN NotNumber
  ELSE Quotient(a.num * b.den - b.num * a.den, a.den * b.den)

Times(a, b) ==
  IF a.k = "nan" \/ b.k = "nan" THEN NotNumber
  ELSE Quotient(a.num * b.num, a.den * b.den)

\* a / b for a divisor that is not zero
Over(a, b) ==
  IF a.k = "nan" \/ b.k = "nan" THEN NotNumber
  ELSE IF b.num < 0 THEN Quotient(0 - a.num * b.den, a.den * (0 - b.num))
  ELSE Quotient(a.num * b.den, a.den * b.num)

\* a < b and a <= b: false as soon as an operand is NaN
Less(a, b) == a.k # "nan" /\ b.k # "nan" /\ a.num * b.den < b.num * a.den

AtMost(a, b) == a.k # "nan" /\ b.k # "nan" /\ a.num * b.den <= b.num * a.den

\* Math.pow(a, n) for a whole number n >= 0
RECURSIVE Power(_, _)
Power(a, n) == IF n = 0 THEN Quotient(1, 1) ELSE Times(a, Power(a, n - 1))

\* parseFloat(x.toFixed(2)) for a number that is not negative
ToFixed2(x) ==
  IF x.k = "nan" THEN NotNumber
  ELSE Quotient((x.num * 200 + x.den) \div (2 * x.den), 100)

RECURSIVE LeadingDigits(_)
LeadingDigits(s) ==
  IF s = <<>> \/ ~IsDigit(Head(s)) THEN <<>> ELSE <<Head(s)>> \o LeadingDigits(Tail(s))

RECURSIVE TenTo(_)
TenTo(n) == IF n = 0 THEN 1 ELSE 10 * TenTo(n - 1)

\* parseFloat(v): the longest decimal literal [+-]digits[.digits] at the start
\* of the text after its leading blanks, NaN when there is none
parseFloat(v) ==
  IF v.k = "num" THEN Quotient(v.n, 1)
  ELSE IF v.k # "str" THEN NotNumber
  ELSE
    The({ The({ The({ The({
      IF ip = <<>> /\ fp = <<>> THEN NotNumber
      ELSE Quotient((IF s # <<>> /\ Head(s) = "-" THEN 0 - 1 ELSE 1) * DigitsVal(ip \o fp, 0),
                    TenTo(Len(fp)))
      : fp \in {IF Len(body) > Len(ip) /\ body[Len(ip) + 1] = "."
                THEN LeadingDigits(SubSeq(body, Len(ip) + 2, Len(body))) ELSE <<>>} })
      : ip \in {LeadingDigits(body)} })
      : body \in {IF s # <<>> /\ Head(s) \in {"-", "+"} THEN Tail(s) ELSE s} })
      : s \in {TrimLeft(v.s)} })

\* the months from the month of today to the month of a date
MonthsBetween(from, to) ==
  ((to \div 372) - (from \div 372)) * 12 + (((to % 372) \div 31) - ((from % 372) \div 31))

\* untilMaturity(maturity).monthsUntilMaturity
untilMaturity(maturity) ==
  IF Falsy(maturity) \/ ParseDate(maturity).nan THEN Zero
  ELSE The({ Quotient(IF totalMonths > 0 THEN totalMonths ELSE 0, 1)
             : totalMonths \in {MonthsBetween(Today, ParseDate(maturity).v)} })

\* x > 0 for an argument as it was passed, compared as a number
IsPositive(v) == ~ToNumber(v).nan /\ ToNumber(v).v > 0

\* the monthly payment averagePrincipal uses: the one given, or an estimate
\* (the terms of the model are whole months)
MonthlyPayment(principal, payment, rate, monthlyRate, months) ==
  IF payment.k # "nan" /\ Less(Zero, payment) THEN payment
  ELSE IF Less(Zero, rate) /\ Less(Zero, months)
       THEN IF Less(Zero, monthlyRate)
            THEN The({ Over(Times(principal, Times(monthlyRate, growth)),
                            Minus(growth, Quotient(1, 1)))
                       : growth \in {Power(Plus(Quotient(1, 1), monthlyRate),
                                           months.num \div months.den)} })
            ELSE Over(principal, months)
       ELSE Times(Times(principal, monthlyRate), Quotient(11, 10))

\* the loop of averagePrincipal over the months: the sum of the principals
\* and the number of months counted
RECURSIVE Amortize(_, _, _, _, _, _)
Amortize(months, monthlyPayment, monthlyRate, tempPrincipal, cummulativePrincipal, month) ==
  IF ~(Less(Quotient(month, 1), months) /\ Less(Zero, tempPrincipal))
  THEN [cummulativePrincipal |-> cummulativePrincipal, month |-> month]
  ELSE The({ Amortize(months, monthlyPayment, monthlyRate,
                      IF reduced.k = "nan" THEN NotNumber
                      ELSE IF Less(reduced, Zero) THEN Zero ELSE reduced,
                      Plus(cummulativePrincipal, tempPrincipal), month + 1)
             : reduced \in {Minus(tempPrincipal,
                                  Minus(monthlyPayment, Times(tempPrincipal, monthlyRate)))} })

\* averagePrincipal(principal, payment, rate, maturity, term, sourceIndex)
averagePrincipal(principal, payment, rate, maturity, term, sourceIndex) ==
  IF Falsy(principal) \/ (~ToNumber(principal).nan /\ ToNumber(principal).v <= 0) THEN Zero
  ELSE The({ The({
    IF AtMost(monthsUntilMaturity, Zero) THEN principalNumber
    ELSE The({ The({
           IF loop.month = 0 THEN principalNumber
           ELSE ToFixed2(Over(loop.cummulativePrincipal, Quotient(loop.month, 1)))
           : loop \in {Amortize(monthsUntilMaturity,
                                MonthlyPayment(principalNumber, paymentNumber, rateNumber,
                                               monthlyRate, monthsUntilMaturity),
                                monthlyRate, principalNumber, Zero, 0)} })
           : monthlyRate \in {IF Less(rateNumber, Quotient(1, 1))
                              THEN Over(rateNumber, Quotient(12, 1))
                              ELSE Over(Over(rateNumber, Quotient(100, 1)), Quotient(12, 1))} })
    : monthsUntilMaturity \in {IF ~Falsy(term) /\ IsPositive(term) THEN parseFloat(term)
                               ELSE IF ~Falsy(maturity) THEN untilMaturity(maturity)
                               ELSE Zero} })
    : principalNumber \in {parseFloat(principal)},
      paymentNumber \in {IF Falsy(payment) THEN Zero ELSE parseFloat(payment)},
      rateNumber \in {IF Falsy(rate) THEN Zero ELSE parseFloat(rate)} })

\* the arguments averagePrincipal is called with
PrincipalArguments ==
  { UndefV, NullV, StrV(<<>>), NumV(0), NumV(0 - 5), NumV(100), StrV(<<"1","0","0">>), StrV(<<"a","b","c">>),
    StrV(<<"$","5",",","0","0","0">>) }

PaymentArguments == { UndefV, NumV(60) }

RateArguments == { UndefV, NumV(12), StrV(<<"a","b","c">>) }

MaturityArguments == { UndefV, StrV(<<"2","0","2","6","-","0","3","-","0","1">>), StrV(<<"s","o","o","n">>) }

TermArguments == { UndefV, NumV(2) }

\* averagePrincipal is called with a principal and the other arguments
InitFinancial ==
  /\ InitPage
  /\ \E principal \in PrincipalArguments, payment \in PaymentArguments, rate \in RateArguments,
        maturity \in MaturityArguments, term \in TermArguments :
        call = Called("averagePrincipal", <<principal, payment, rate, maturity, term, UndefV>>)

\* averagePrincipal returns its value
ReturnAveragePrincipal ==
  /\ call.fn = "averagePrincipal"
  /\ call.returned = Pending
  /\ call' = [call EXCEPT !.returned =
                averagePrincipal(call.args[1], call.args[2], call.args[3], call.args[4],
                                 call.args[5], call.args[6])]
  /\ UNCHANGED <<pageVars, registeredLibraries, cachedKeywordEntries>>

NextFinancial == ReturnAveragePrincipal

SpecFinancial == InitFinancial /\ [][NextFinancial]_vars

\* the principal is missing, is not a number, or is a number that is not
\* positive
InvalidPrincipal(principal) ==
  \/ principal.k \in {"null", "undef"}
  \/ ToNumber(principal).nan
  \/ ToNumber(principal).v <= 0

\* C26: averagePrincipal returns 0 whenever its principal argument is missing,
\* not a number or not positive, whatever the other arguments are.
InvalidPrincipalGivesZero ==
  (call.fn = "averagePrincipal" /\ call.returned # Pending /\ InvalidPrincipal(call.args[1]))
     => call.returned = Zero

-----------------------------------------------------------------------------
\* The cache of the keyword index (functionRegistry.js): the libraries of
\* window.FunctionLibrary change while the index is cached

\* a library a script registers after financial.js, as financial.js does
\* with window.FunctionLibrary.financial
riskLibrary ==
  << [LibraryFunction(<<"r","i","s","k","S","c","o","r","e">>, <<"S","c","o","r","e","s"," ","t","h","e"," ","d","e","f","a","u","l","t"," ","r","i","s","k"," ","o","f"," ","a"," ","l","o","a","n">>, <<<<"b","a","l","a","n","c","e">>>>)
        EXCEPT !.library = "risk"] >>

\* the libraries a script registers, by name
Libraries == [financial |-> FunctionLibrary, risk |-> riskLibrary]

\* the names of the libraries of window.FunctionLibrary
LibraryNames(libraries) == { libraries[i].library : i \in 1..Len(libraries) }

\* getKeywordEntries() without the test of the cache: an index is built by
\* every call
getKeywordEntries_Rebuild(cached, libraries) == KeywordEntries(buildKeywordEntries(libraries))

\* getKeywordEntries() with the cache and window.FunctionLibrary of the call:
\* an index is built when the cache is null, and an index with no entry is
\* an array, which is not null
getKeywordEntries(cached, libraries) ==
  IF cached.null THEN KeywordEntries(buildKeywordEntries(libraries)) ELSE cached

\* the prompts whose lookup returns null before the index is read: an empty
\* prompt and a prompt with no token
ReadsIndex(promptText) ==
  /\ promptText # <<>>
  /\ KeywordTokens(toLowerCase(promptText)) # <<>>

\* what findBestFunctionByPrompt returns for the entry at a position of the
\* index, null for position 0
FoundFunction(entries, best) ==
  IF best = 0 THEN JSNull
  ELSE [library |-> entries[best].library, functionName |-> entries[best].functionName,
        function |-> entries[best].function,
        entities |-> entries[best].function.entities]

\* the prompts and the target entities of the lookups
LookupPrompts == {<<>>, <<"t","h","e">>, <<"a","v","e","r","a","g","e"," ","p","r","i","n","c","i","p","a","l">>, <<"r","i","s","k"," ","s","c","o","r","e">>}

LookupEntities == {<<>>, <<<<"l","o","a","n","s">>>>}

\* a call of window.FunctionRegistry.findBestFunctionByPrompt
FindBestFunctionByPrompt(promptText, targetEntities) ==
  /\ IF ~ReadsIndex(promptText)
       THEN /\ call' = [fn |-> "findBestFunctionByPrompt",
                        args |-> <<promptText, targetEntities>>, returned |-> JSNull]
            /\ UNCHANGED cachedKeywordEntries
       ELSE \E entries \in {getKeywordEntries(cachedKeywordEntries, registeredLibraries).entries} :
              /\ cachedKeywordEntries' = KeywordEntries(entries)
              /\ call' = [fn |-> "findBestFunctionByPrompt",
                          args |-> <<promptText, targetEntities>>,
                          returned |-> FoundFunction(entries,
                                         findBestFunctionByPrompt(entries, promptText,
                                                                  targetEntities))]
  /\ UNCHANGED <<registeredLibraries, pageVars>>

\* a call of window.FunctionRegistry.clearKeywordCache
ClearKeywordCache ==
  /\ cachedKeywordEntries' = NoKeywordEntries
  /\ UNCHANGED <<registeredLibraries, call, pageVars>>

\* a script sets window.FunctionLibrary[name]
RegisterLibrary(name) ==
  /\ ~(name \in LibraryNames(registeredLibraries))
  /\ registeredLibraries' = registeredLibraries \o Libraries[name]
  /\ UNCHANGED <<cachedKeywordEntries, call, pageVars>>

\* a script deletes window.FunctionLibrary[name]
RemoveLibrary(name) ==
  /\ name \in LibraryNames(registeredLibraries)
  /\ registeredLibraries' = SelectSeq(registeredLibraries, LAMBDA func : func.library # name)
  /\ UNCHANGED <<cachedKeywordEntries, call, pageVars>>

NextRegistry ==
  \/ \E promptText \in LookupPrompts, targetEntities \in LookupEntities :
        FindBestFunctionByPrompt(promptText, targetEntities)
  \/ ClearKeywordCache
  \/ \E name \in DOMAIN Libraries : RegisterLibrary(name)
  \/ \E name \in DOMAIN Libraries : RemoveLibrary(name)

SpecRegistry == Init /\ [][NextRegistry]_vars

\* C27: a keyword index that is cached changes only by clearKeywordCache,
\* which sets it to null; a lookup that reads the index when the cache is null
\* builds it from the libraries registered at that moment, and every lookup
\* answers from the cached index, whatever libraries are registered by then
KeywordIndexReusedUntilCleared ==
  [][/\ ~cachedKeywordEntries.null /\ cachedKeywordEntries' # cachedKeywordEntries
          => ClearKeywordCache
     /\ \A promptText \in LookupPrompts, targetEntities \in LookupEntities :
          (/\ ReadsIndex(promptText)
           /\ call'.args = <<promptText, targetEntities>>
           /\ FindBestFunctionByPrompt(promptText, targetEntities))
            => /\ cachedKeywordEntries.null
                    => cachedKeywordEntries'
                         = KeywordEntries(buildKeywordEntries(registeredLibraries))
               /\ ~cachedKeywordEntries.null
                    => call'.returned
                         = FoundFunction(cachedKeywordEntries.entries,
                             findBestFunctionByPrompt(cachedKeywordEntries.entries,
                                                      promptText, targetEntities))]_vars

\* a lookup of the risk score answered null from an index that was built
\* before the risk library was registered
StaleIndexWitness ==
  /\ cachedKeywordEntries = KeywordEntries(pageKeywordEntries)
  /\ "risk" \in LibraryNames(registeredLibraries)
  /\ call.fn = "findBestFunctionByPrompt"
  /\ call.args[1] = <<"r","i","s","k"," ","s","c","o","r","e">>
  /\ call.returned = JSNull

-----------------------------------------------------------------------------
\* The valuation score of a field (queryEngine.js, identifyValuationFields)

\* the names and the ids of the fields that are scored
ValuationNames ==
  {<<"P","r","i","n","c","i","p","a","l">>, <<"B","a","l","a","n","c","e">>, <<"O","u","t","s","t","a","n","d","i","n","g">>, <<"A","v","e","r","a","g","e">>, <<"a","v","g">>, <<"A","m","o","u","n","t">>, <<"V","a","l","u","e">>,
   <<"P","r","i","n","c","i","p","a","l"," ","B","a","l","a","n","c","e">>, <<"A","v","e","r","a","g","e"," ","O","u","t","s","t","a","n","d","i","n","g"," ","B","a","l","a","n","c","e">>, <<"L","o","a","n","_","A","m","o","u","n","t">>, <<"R","a","t","e">>,
   <<"a","v","e","r","a","g","e","|","a","v","g">>, <<"p","r","n","c","p","a","l">>, <<>>}

\* a field of a schema is about to be scored
InitValuation ==
  /\ InitPage
  /\ \E name \in ValuationNames, id \in ValuationNames :
        call = Called("ValuationScore", <<[name |-> name, id |-> id]>>)

\* the score of the field is computed
ReturnValuationScore ==
  /\ call.fn = "ValuationScore"
  /\ call.returned = Pending
  /\ call' = [call EXCEPT !.returned =
                [k |-> "num", num |-> ValuationScore(call.args[1]), den |-> 1]]
  /\ UNCHANGED <<registeredLibraries, cachedKeywordEntries, pageVars>>

NextValuation == ReturnValuationScore

SpecValuation == InitValuation /\ [][NextValuation]_vars

\* the pattern words of the table and their weights
PatternWeights ==
  << [words |-> {<<"p","r","i","n","c","i","p","a","l">>}, weight |-> 5],
     [words |-> {<<"b","a","l","a","n","c","e">>}, weight |-> 5],
     [words |-> {<<"o","u","t","s","t","a","n","d","i","n","g">>}, weight |-> 3],
     [words |-> {<<"a","v","e","r","a","g","e">>, <<"a","v","g">>}, weight |-> 3],
     [words |-> {<<"a","m","o","u","n","t">>}, weight |-> 2],
     [words |-> {<<"v","a","l","u","e">>}, weight |-> 1] >>

\* the weights of the patterns that the name or the id contains, plus 1 for
\* each of these patterns with a word that the name or the id equals
WeightsAndExactBonus(field) ==
  LET name == toLowerCase(field.name)
      id == toLowerCase(field.id)
      contained(p) == \E w \in p.words : includes(name, w) \/ includes(id, w)
      exact(p) == \E w \in p.words : name = w \/ id = w
  IN SumSeq([i \in 1..Len(PatternWeights) |->
               IF contained(PatternWeights[i])
               THEN PatternWeights[i].weight + (IF exact(PatternWeights[i]) THEN 1 ELSE 0)
               ELSE 0])

\* C28: the valuation score of a field is the sum of the weights of the
\* patterns its name or id contains plus 1 for each matched pattern word
\* that the name or the id equals, ignoring case
ValuationScoreIsWeightsPlusExactBonus ==
  (call.fn = "ValuationScore" /\ call.returned # Pending)
    => call.returned.num = WeightsAndExactBonus(call.args[1])

-----------------------------------------------------------------------------
\* The grouping of a multi-source query by unique id (queryEngine.js,
\* combineMultiSourceResults)

\* the files imported in a session of grouped queries: arrays of objects read
\* by JSON.parse, whose portfolio numbers are numbers, and a text file whose
\* portfolio numbers are texts; one account has no portfolio number
GroupedFiles == {
  File(<<"l","o","a","n","s",".","j","s","o","n">>, <<Hdr(S_Portfolio, "integer"), Hdr(S_Principal, "currency")>>,
       << Row2(NumV(0), <<S_Principal, NumV(100)>>),
          Row2(NumV(7), <<S_Principal, NumV(250)>>) >>),
  File(<<"c","h","e","c","k","i","n","g",".","j","s","o","n">>, <<Hdr(S_Portfolio, "integer"), Hdr(S_Balance, "currency")>>,
       << Row2(NumV(7), <<S_Balance, NumV(75)>>),
          Row2(NumV(0), <<S_Balance, NumV(30)>>),
          Row2(NumV(7), <<S_Balance, NumV(5)>>) >>),
  File(<<"c","h","e","c","k","i","n","g",".","c","s","v">>, <<Hdr(S_Portfolio, "integer"), Hdr(S_Balance, "currency")>>,
       << Row2(StrV(<<"0">>), <<S_Balance, StrV(<<"4","0">>)>>),
          Row2(StrV(<<>>), <<S_Balance, StrV(<<"6","0">>)>>) >>),
  File(<<"l","o","a","n","s",".","c","s","v">>, <<Hdr(S_Portfolio, "integer"), Hdr(S_Principal, "currency")>>,
       << Row2(StrV(<<"0">>), <<S_Principal, StrV(<<"$","5",",","0","0","0">>)>>),
          Row2(StrV(<<"7">>), <<S_Principal, StrV(<<"9","0","0">>)>>) >>) }

\* the plans of a session of grouped queries
GroupedPlans == {
  Plan(<<S_loans, S_checking>>, <<>>, "AND"),
  Plan(<<S_checking, S_loans>>, <<C_over100>>, "AND"),
  Plan(<<S_loans, S_checking>>, <<C_under1000>>, "AND") }

\* a session of grouped queries: files are imported, sources deleted and
\* multi-source queries executed, each grouping the filtered rows of the
\* sources it queries
NextGrouped ==
  \/ \E file \in GroupedFiles : ImportFiles(<<file>>, <<clock>>)
  \/ \E i \in 1..Len(sources) : DeleteSource(sources[i].sourceId)
  \/ \E queryPlan \in GroupedPlans : ExecuteQueryPlan(queryPlan)
  \/ ReturnResult

SpecGrouped == Init /\ [][NextGrouped]_vars

\* the filtered rows of a multi-source result, each with its source
FilteredRows(r) == Flatten([i \in 1..Len(r.sourceResults) |-> r.sourceResults[i].rows])

\* a row has a unique-id value: a number, 0 included, or a text that is not
\* empty
HasUniqueIdValue(t, uniqueId) ==
  \/ Cell(t.row, uniqueId).k = "num"
  \/ Cell(t.row, uniqueId).k = "str" /\ Cell(t.row, uniqueId).s # <<>>

\* C30: the groups of a multi-source result partition the filtered rows by
\* unique id: every filtered row with a unique-id value, 0 included, is a sub
\* row of exactly one group, the one with its unique-id value; no two groups
\* have the same unique-id value; the source ids of a group are those of its
\* sub rows
GroupsPartitionFilteredRows ==
  result.kind = "multi" =>
    \E filtered \in {FilteredRows(result)} :
      /\ \A k \in 1..Len(filtered) :
           HasUniqueIdValue(filtered[k], result.uniqueId)
             => \E g \in 1..Len(result.groups) :
                  /\ \E m \in 1..Len(result.groups[g]._subRows) :
                        result.groups[g]._subRows[m] = filtered[k]
                  /\ result.groups[g].vals[result.uniqueId]
                       = Cell(filtered[k].row, result.uniqueId)
                  /\ \A h \in 1..Len(result.groups) :
                       (\E m \in 1..Len(result.groups[h]._subRows) :
                           result.groups[h]._subRows[m] = filtered[k])
                         => h = g
      /\ \A g, h \in 1..Len(result.groups) :
           result.groups[g].vals[result.uniqueId] = result.groups[h].vals[result.uniqueId]
             => g = h
      /\ \A g \in 1..Len(result.groups) :
           SeqToSet(result.groups[g]._sourceIds)
             = { result.groups[g]._subRows[m]._sourceId
                 : m \in 1..Len(result.groups[g]._subRows) }

====
